---- MODULE Spec2Model ----
(***************************************************************************)
(* Depth-chart pipeline of ScrapePlayers.                                  *)
(*                                                                         *)
(*   SpecParse : process_defenses.parse_depth_chart_html followed by       *)
(*               convert_to_csv, and scrapeMLB.parse_mlb_depth_chart_data, *)
(*               on one page section (position table + player table).      *)
(*   Spec      : start_combining.combine_team_depth_charts for one team:   *)
(*               the unit files are listed, sorted by unit priority, read  *)
(*               row by row into consolidated_players, and the combined    *)
(*               rows are written.                                         *)
(*   SpecRow   : the cell loop of parse_depth_chart_html on one row.       *)
(*   SpecBatch : the file loop of process_defenses.py over sections whose  *)
(*               nested elements may be missing.                           *)
(*   SpecFetch : scraper.py, the loop over the team catalog;               *)
(*               FairSpecFetch adds that the loop step is taken.           *)
(*   SpecMaster: master_combine.create_master_depth_chart_csv, called      *)
(*               again on the directory that holds its own output.         *)
(*   SpecRuns  : the combine stage and the master merge, run twice over    *)
(*               the same directory.                                       *)
(*   SpecUnits : the tables of one team page, saved by scraper.py under    *)
(*               their position on the page and renamed to a unit by       *)
(*               rename_files.py.                                          *)
(*   SpecStatus: the status of one roster cell in scrapeNBA.py and         *)
(*               scrapeNHL.py.                                             *)
(*   SpecHeader: write_players_to_csv of scrapeMLB.py and scrapeNBA.py.    *)
(*   SpecIsolation: the combine stage on two directories that differ in    *)
(*               the files of another team.                                *)
(*   SpecDedup : the deduplication of scrapeMLB.py, scrapeNHL.py and       *)
(*               scrapeNBA.py.                                             *)
(*   SpecRename: rename_files.rename_depth_chart_files, run repeatedly.    *)
(*   SpecClear : clearTempFiles.delete_temp_files.                         *)
(*                                                                         *)
(* Python strings are TLA+ strings; where the code compares strings        *)
(* (sorting) the comparison is by code points, see Chars and StrLess.      *)
(* The formation title of a section is carried through unchanged by the    *)
(* parser and is left out.                                                 *)
(***************************************************************************)
EXTENDS Integers, Sequences, FiniteSets, TLC

VARIABLES
    \* ---- one page section (SpecParse) ----
    posTable,              \* table.Table--fixed-left: its tbody rows, or NoLeftTable
    playerTable,           \* div.Table__Scroller > table: its tbody rows, NoScroller or NoTable
    parsed,                \* return value of parse_depth_chart_html
    csv_rows,              \* data rows built by convert_to_csv (header row left out)
    parsed_players,        \* return value of parse_mlb_depth_chart_data
    pcParse,               \* "html" | "parsed" | "csv" | "mlb" | "idle"
    \* ---- one team of the combine stage (Spec) ----
    pool,                  \* the rows the unit files of this run are made of
    sorted_file_types,     \* start_combining.py:80
    fileIdx,               \* index into sorted_file_types of the file being read
    seen,                  \* the rows read so far, in reading order, with their unit priority
    consolidated_players,  \* start_combining.py:70
    output_rows,           \* the data rows of <team>_combined_depth_chart.csv
    pc,                    \* "list" | "read" | "done" | "idle"
    \* ---- one row of the player table (SpecRow) ----
    row_cells,             \* row.find_all('td', class_='Table__TD')
    players_in_row,        \* process_defenses.py:47
    cellIdx,               \* the number of cells the loop of line 48 has passed
    pcRow,                 \* "scan" | "done" | "raised" | "idle"
    \* ---- the file loop of process_defenses.py (SpecBatch) ----
    batch_files,           \* os.listdir(input_directory), in listing order
    batchIdx,              \* the number of files the loop has passed
    batch_log,             \* what the loop did with each file passed
    xml_written,           \* the files (by index) an XML file was written for
    csv_written,           \* the files (by index) a CSV file was written for
    pcBatch,               \* "loop" | "done" | "raised" | "idle"
    \* ---- the fetch loop of scraper.py (SpecFetch) ----
    fetchIdx,              \* the number of teams the loop has passed
    fetch_log,             \* the calls of get_depth_chart_tables, in order, with the response
    files_written,         \* the <<team, i>> with a file <slug>_depth_chart_table_<i>.html
    pcFetch,               \* "loop" | "done" | "raised" | "idle"
    \* ---- master_combine.create_master_depth_chart_csv (SpecMaster) ----
    master_dir,            \* input_directory without the master file: file name -> rows
    master_csv,            \* the master file: NoFile, or its rows
    all_files,             \* master_combine.py:18, sorted at line 25
    masterIdx,             \* the number of files the loop of line 34 has passed
    header_written,        \* master_combine.py:27
    master_runs,           \* the rows of the master file after each earlier run
    pcMaster,              \* "list" | "merge" | "done" | "error" | "idle"
    \* ---- the combine stage and the master merge, run twice (SpecRuns) ----
    unit_dir,              \* input_csv_directory: file name -> data rows
    runNo,                 \* the run in progress
    combined_out,          \* per run, output_combined_directory: file name -> rows
    master_out,            \* per run, the rows of the master file
    pcRun,                 \* "combine" | "master" | "done" | "idle"
    \* ---- the tables of one team page, from scraper.py to rename_files.py (SpecUnits) ----
    page_titles,           \* raw_html_tables of scraper.py:146, each table by its section title
    table_files,           \* per table of the page, the suffix of the name of its file
    pcUnits,               \* "save" | "rename" | "done" | "idle"
    \* ---- the name cell of one roster row, read by both roster parsers (SpecStatus) ----
    player_info_cell,      \* the cell: its layout and what it holds
    nba_status,            \* player_status of scrapeNBA.py for the cell
    nhl_status,            \* player_status of scrapeNHL.py for the cell
    pcStatus,              \* "parse" | "idle"
    \* ---- write_players_to_csv of the league scrapers (SpecHeader) ----
    players_data,          \* the records to write, each by its set of keys
    csv_headers,           \* per writer that has run, the fieldnames of its DictWriter
    pcHeader,              \* "write" | "idle"
    \* ---- the combine stage on two directories that differ in one file (SpecIsolation) ----
    unit_listings,         \* the two directories, each as its listing of files with their rows
    combined_dirs,         \* per directory that was combined, output_combined_directory
    pcIsolation,           \* "combine" | "idle"
    \* ---- the deduplication of the league scrapers (SpecDedup) ----
    league,                \* "mlb" | "nba" | "nhl": the scraper that runs
    all_raw_players_data,  \* the records of all teams, in the order parsed
    dedupIdx,              \* the number of records the loop has passed
    final_players_data,    \* the dict, as its items in insertion order
    deduplicated_players,  \* the records handed to write_players_to_csv
    pcDedup,               \* "loop" | "done" | "idle"
    \* ---- rename_files.rename_depth_chart_files, run twice (SpecRename) ----
    tables_before,         \* the directory before the first run: name -> entry
    tables_dir,            \* the directory: name -> entry (file or subdirectory, and the name it had at first)
    listed,                \* os.listdir(directory) of the run in progress
    renameIdx,             \* the number of names the loop has passed
    files_renamed_count,   \* rename_files.py:23
    renamed_counts,        \* files_renamed_count of each finished run
    pcRename,              \* "list" | "loop" | "done" | "idle"
    \* ---- clearTempFiles.delete_temp_files (SpecClear) ----
    disk_before,           \* the directories before the call: directory -> NoDirectory or name -> kind
    disk,                  \* the directories: directory -> NoDirectory or name -> kind
    directories,           \* the argument, after the default of line 11
    clearIdx,              \* the number of directories the loop of line 19 has passed
    pcClear                \* "loop" | "done" | "idle"

parseVars == <<posTable, playerTable, parsed, csv_rows, parsed_players, pcParse>>
combineVars == <<pool, sorted_file_types, fileIdx, seen, consolidated_players, output_rows, pc>>
rowVars == <<row_cells, players_in_row, cellIdx, pcRow>>
\* the variables of the stages other than SpecParse and Spec
batchVars == <<batch_files, batchIdx, batch_log, xml_written, csv_written, pcBatch>>
fetchVars == <<fetchIdx, fetch_log, files_written, pcFetch>>
masterVars == <<master_dir, master_csv, all_files, masterIdx, header_written, master_runs,
               pcMaster>>
runVars == <<unit_dir, runNo, combined_out, master_out, pcRun>>
unitsVars == <<page_titles, table_files, pcUnits>>
statusVars == <<player_info_cell, nba_status, nhl_status, pcStatus>>
headerVars == <<players_data, csv_headers, pcHeader>>
isolationVars == <<unit_listings, combined_dirs, pcIsolation>>
dedupVars == <<league, all_raw_players_data, dedupIdx, final_players_data, deduplicated_players, pcDedup>>
renameVars == <<tables_before, tables_dir, listed, renameIdx, files_renamed_count, renamed_counts, pcRename>>
clearVars == <<disk_before, disk, directories, clearIdx, pcClear>>
\* the variables of the scripts that are modelled one by one
toolVars == <<unitsVars, statusVars, headerVars, isolationVars, dedupVars, renameVars, clearVars>>
stageVars == <<rowVars, batchVars, fetchVars, masterVars, runVars, toolVars>>
vars == <<parseVars, combineVars, stageVars>>

RowIdle ==
    /\ row_cells = <<>>
    /\ players_in_row = <<>>
    /\ cellIdx = 0
    /\ pcRow = "idle"
BatchIdle ==
    /\ batch_files = <<>>
    /\ batchIdx = 0
    /\ batch_log = <<>>
    /\ xml_written = {}
    /\ csv_written = {}
    /\ pcBatch = "idle"
FetchIdle ==
    /\ fetchIdx = 0
    /\ fetch_log = <<>>
    /\ files_written = {}
    /\ pcFetch = "idle"
MasterIdle ==
    /\ master_dir = <<>>
    /\ master_csv = <<>>
    /\ all_files = <<>>
    /\ masterIdx = 0
    /\ header_written = FALSE
    /\ master_runs = <<>>
    /\ pcMaster = "idle"
RunsIdle ==
    /\ unit_dir = <<>>
    /\ runNo = 0
    /\ combined_out = <<>>
    /\ master_out = <<>>
    /\ pcRun = "idle"
UnitsIdle ==
    /\ page_titles = <<>>
    /\ table_files = <<>>
    /\ pcUnits = "idle"
StatusIdle ==
    /\ player_info_cell = <<>>
    /\ nba_status = "idle"
    /\ nhl_status = "idle"
    /\ pcStatus = "idle"
HeaderIdle ==
    /\ players_data = <<>>
    /\ csv_headers = <<>>
    /\ pcHeader = "idle"
IsolationIdle ==
    /\ unit_listings = <<>>
    /\ combined_dirs = <<>>
    /\ pcIsolation = "idle"
DedupIdle ==
    /\ league = "idle"
    /\ all_raw_players_data = <<>>
    /\ dedupIdx = 0
    /\ final_players_data = <<>>
    /\ deduplicated_players = <<>>
    /\ pcDedup = "idle"
RenameIdle ==
    /\ tables_before = <<>>
    /\ tables_dir = <<>>
    /\ listed = <<>>
    /\ renameIdx = 0
    /\ files_renamed_count = 0
    /\ renamed_counts = <<>>
    /\ pcRename = "idle"
ClearIdle ==
    /\ disk_before = <<>>
    /\ disk = <<>>
    /\ directories = <<>>
    /\ clearIdx = 0
    /\ pcClear = "idle"
ToolIdle == UnitsIdle /\ StatusIdle /\ HeaderIdle /\ IsolationIdle /\ DedupIdle /\ RenameIdle /\ ClearIdle
\* every script but the one named is idle, and stays so
ToolsIdleBut(x) ==
    /\ (x # "units" => UnitsIdle)
    /\ (x # "status" => StatusIdle)
    /\ (x # "header" => HeaderIdle)
    /\ (x # "isolation" => IsolationIdle)
    /\ (x # "dedup" => DedupIdle)
    /\ (x # "rename" => RenameIdle)
    /\ (x # "clear" => ClearIdle)
ToolsStayBut(x) ==
    /\ IF x = "units" THEN TRUE ELSE UNCHANGED unitsVars
    /\ IF x = "status" THEN TRUE ELSE UNCHANGED statusVars
    /\ IF x = "header" THEN TRUE ELSE UNCHANGED headerVars
    /\ IF x = "isolation" THEN TRUE ELSE UNCHANGED isolationVars
    /\ IF x = "dedup" THEN TRUE ELSE UNCHANGED dedupVars
    /\ IF x = "rename" THEN TRUE ELSE UNCHANGED renameVars
    /\ IF x = "clear" THEN TRUE ELSE UNCHANGED clearVars
StagesIdle == RowIdle /\ BatchIdle /\ FetchIdle /\ MasterIdle /\ RunsIdle /\ ToolIdle

\* ---- bounds of the model ----
MaxPositionRows == 3
MaxPlayerRows == 2
MaxCells == 2
MaxRows == 3
MaxProjectionRows == 4
MaxRowCells == 3
MaxFiles == 3
MaxTeams == 3
MaxTables == 2
MaxFileRows == 2

\* the stages are run twice
NumRuns == 2

\* Python's None, where the other values are strings
None == "None"
\* Python's None, where the other values are dicts
NoneDict == [none |-> TRUE]

Min(a, b) == IF a <= b THEN a ELSE b

SeqsUpTo(S, n) == UNION {[1..k -> S] : k \in 0..n}

\* str(n) for the depths enumerate(..., 1) can produce here
Str(n) == <<"1", "2", "3", "4", "5", "6", "7", "8", "9", "10", "11", "12">>[n]

(***************************************************************************)
(* The markup of one section.                                              *)
(***************************************************************************)
\* soup.find('table', class_='Table--fixed-left') finds nothing
NoLeftTable == [found |-> FALSE, rows |-> <<>>]
\* soup.find('div', class_='Table__Scroller') finds nothing
NoScroller == [scroller |-> FALSE, table |-> FALSE, rows |-> <<>>]
\* the scroller holds no table
NoTable == [scroller |-> TRUE, table |-> FALSE, rows |-> <<>>]
\* a position row without span[data-testid=statCell]
NoSpan == [span |-> FALSE, text |-> <<>>]
\* the text of a position span, as its whitespace-separated tokens
SpanTexts == {<<"QB">>, <<"RB", "2nd">>}
PositionRows == {NoSpan} \cup {[span |-> TRUE, text |-> t] : t \in SpanTexts}

\* a player cell either holds a.AnchorLink or a dash
Link == "link"
Dash == "-"
Cells == {Link, Dash}

\* the players the links of the page point to: the link in row i, cell j
Roster == <<
    [name |-> "Al", url |-> "/al", uid |-> "u1", status |-> None],
    [name |-> "Bo", url |-> "/bo", uid |-> None, status |-> "Q"],
    [name |-> "Cy", url |-> "/cy", uid |-> "u2", status |-> None] >>

LinkAt(i, j) == Roster[((i + j) % Len(Roster)) + 1]

TeamName == "Test Team"

(***************************************************************************)
(* process_defenses.parse_depth_chart_html                                 *)
(***************************************************************************)
\* positions: one entry per row that has a statCell span, text.split()[0]
RECURSIVE ExtractPositions(_)
ExtractPositions(rows) ==
    IF rows = <<>> THEN <<>>
    ELSE IF ~Head(rows).span THEN ExtractPositions(Tail(rows))
         ELSE <<Head(Head(rows).text)>> \o ExtractPositions(Tail(rows))

\* a mutant: a row without a span still contributes a label
RECURSIVE ExtractPositionsEveryRow(_)
ExtractPositionsEveryRow(rows) ==
    IF rows = <<>> THEN <<>>
    ELSE IF ~Head(rows).span THEN <<"Unknown">> \o ExtractPositionsEveryRow(Tail(rows))
         ELSE <<Head(Head(rows).text)>> \o ExtractPositionsEveryRow(Tail(rows))

Positions(left_table) ==
    IF ~left_table.found THEN <<>> ELSE ExtractPositions(left_table.rows)

\* players_in_row: a dict per link, None for every other cell
PlayersInRow(i, row) ==
    [j \in 1..Len(row) |-> IF row[j] = Link THEN LinkAt(i, j) ELSE NoneDict]

PlayerDataRows(scroller) ==
    IF ~scroller.table THEN <<>>
    ELSE [i \in 1..Len(scroller.rows) |-> PlayersInRow(i, scroller.rows[i])]

\* a mutant: the loop stops one row early
NumRowsShort(positions, player_data_rows) ==
    Min(Len(positions), Len(player_data_rows)) - 1

NumRows(positions, player_data_rows) ==
    Min(Len(positions), Len(player_data_rows))

ParseDepthChartHtml(left, right) ==
    LET positions == Positions(left) IN
    IF positions = <<>> THEN NoneDict
    ELSE IF ~right.scroller THEN NoneDict
    ELSE LET player_data_rows == PlayerDataRows(right)
             num_rows == NumRows(positions, player_data_rows)
         IN  [positions_and_players |->
                 [i \in 1..num_rows |->
                     [position |-> positions[i], players |-> player_data_rows[i]]]]

(***************************************************************************)
(* process_defenses.convert_to_csv                                         *)
(***************************************************************************)
PlayerCsvRow(team_name, position_name, depth, player) ==
    [TeamName |-> team_name, Position |-> position_name, Depth |-> Str(depth),
     PlayerName |-> player.name, PlayerURL |-> player.url,
     PlayerUID |-> IF player.uid # None THEN player.uid ELSE "",
     InjuryStatus |-> IF player.status # None THEN player.status ELSE ""]

EmptySlotCsvRow(team_name, position_name, depth) ==
    [TeamName |-> team_name, Position |-> position_name, Depth |-> Str(depth),
     PlayerName |-> "", PlayerURL |-> "", PlayerUID |-> "",
     InjuryStatus |-> "Empty Slot"]

PositionCsvRows(team_name, pos_entry) ==
    [d \in 1..Len(pos_entry.players) |->
        IF pos_entry.players[d] # NoneDict
        THEN PlayerCsvRow(team_name, pos_entry.position, d, pos_entry.players[d])
        ELSE EmptySlotCsvRow(team_name, pos_entry.position, d)]

RECURSIVE Flatten(_)
Flatten(ss) == IF ss = <<>> THEN <<>> ELSE Head(ss) \o Flatten(Tail(ss))

ConvertToCsv(parsed_data, team_name) ==
    IF parsed_data = NoneDict THEN <<>>
    ELSE Flatten([i \in 1..Len(parsed_data.positions_and_players) |->
                    PositionCsvRows(team_name, parsed_data.positions_and_players[i])])

(***************************************************************************)
(* scrapeMLB.parse_mlb_depth_chart_data                                    *)
(***************************************************************************)
GenericDepth(j) == <<"Depth", j>>
HeaderChoices == {<<>>, <<"Starter">>}

MlbDepthLevels(header) ==
    IF header = <<>> THEN [i \in 1..5 |-> GenericDepth(i)] ELSE header

MlbPositionName(position_row) ==
    IF ~position_row.span THEN <<"Unknown", "Position">> ELSE position_row.text

MlbRowPlayers(i, position_row, player_row, depth_levels) ==
    LET rec(j) == [position_name |-> MlbPositionName(position_row),
                   player_name |-> LinkAt(i, j).name,
                   depth_label |-> IF j <= Len(depth_levels) THEN depth_levels[j]
                                   ELSE GenericDepth(j),
                   player_url |-> LinkAt(i, j).url,
                   status |-> LinkAt(i, j).status]
    IN  Flatten([j \in 1..Len(player_row) |->
                    IF player_row[j] = Link THEN <<rec(j)>> ELSE <<>>])

ParseMlbDepthChartData(left, right, header) ==
    IF ~left.found \/ ~right.table THEN <<>>
    ELSE LET depth_levels == MlbDepthLevels(header)
             position_rows == left.rows
             player_rows == right.rows
         IN  Flatten([i \in 1..Min(Len(position_rows), Len(player_rows)) |->
                        MlbRowPlayers(i, position_rows[i], player_rows[i], depth_levels)])

(***************************************************************************)
(* SpecParse                                                               *)
(***************************************************************************)
PositionTables ==
    {NoLeftTable} \cup
    {[found |-> TRUE, rows |-> r] : r \in SeqsUpTo(PositionRows, MaxPositionRows)}
PlayerTables ==
    {NoScroller, NoTable} \cup
    {[scroller |-> TRUE, table |-> TRUE, rows |-> r] :
        r \in SeqsUpTo(SeqsUpTo(Cells, MaxCells), MaxPlayerRows)}

CombineIdle ==
    /\ pool = {}
    /\ sorted_file_types = <<>>
    /\ fileIdx = 0
    /\ seen = <<>>
    /\ consolidated_players = <<>>
    /\ output_rows = <<>>
    /\ pc = "idle"

InitParse ==
    /\ posTable \in PositionTables
    /\ playerTable \in PlayerTables
    /\ parsed = NoneDict
    /\ csv_rows = <<>>
    /\ parsed_players = <<>>
    /\ pcParse = "html"
    /\ CombineIdle
    /\ StagesIdle

ParseHtml ==
    /\ pcParse = "html"
    /\ parsed' = ParseDepthChartHtml(posTable, playerTable)
    /\ pcParse' = "parsed"
    /\ UNCHANGED <<posTable, playerTable, csv_rows, parsed_players>>
    /\ UNCHANGED <<combineVars, stageVars>>

\* __main__ of process_defenses.py: the CSV is built only from a parsed section
WriteCsv ==
    /\ pcParse = "parsed"
    /\ parsed # NoneDict
    /\ csv_rows' = ConvertToCsv(parsed, TeamName)
    /\ pcParse' = "csv"
    /\ UNCHANGED <<posTable, playerTable, parsed, parsed_players>>
    /\ UNCHANGED <<combineVars, stageVars>>

ParseMlb ==
    /\ pcParse = "html"
    /\ \E header \in HeaderChoices :
          parsed_players' = ParseMlbDepthChartData(posTable, playerTable, header)
    /\ pcParse' = "mlb"
    /\ UNCHANGED <<posTable, playerTable, parsed, csv_rows>>
    /\ UNCHANGED <<combineVars, stageVars>>

NextParse == ParseHtml \/ WriteCsv \/ ParseMlb

SpecParse == InitParse /\ [][NextParse]_vars

(***************************************************************************)
(* Python's comparison of str values: by code point, a proper prefix first *)
(***************************************************************************)
Chars(s) ==
    CASE s = ""   -> <<>>
      [] s = "1"  -> <<49>>
      [] s = "2"  -> <<50>>
      [] s = "3"  -> <<51>>
      [] s = "10" -> <<49, 48>>
      [] s = "H"  -> <<72>>
      [] s = "K"  -> <<75>>
      [] s = "KR" -> <<75, 82>>
      [] s = "KOS" -> <<75, 79, 83>>
      [] s = "LS" -> <<76, 83>>
      [] s = "P"  -> <<80>>
      [] s = "PK" -> <<80, 75>>
      [] s = "PR" -> <<80, 82>>
      [] s = "QB" -> <<81, 66>>
      [] s = "RB" -> <<82, 66>>
      [] s = "WR" -> <<87, 82>>
      [] s = "u1" -> <<117, 49>>
      [] s = "u2" -> <<117, 50>>
      [] s = "Zip" -> <<90, 105, 112>>
      [] s = "age" -> <<97, 103, 101>>
      [] s = "depth_label" -> <<100, 101, 112, 116, 104, 95, 108, 97, 98, 101, 108>>
      [] s = "ari" -> <<97, 114, 105>>
      [] s = "atl" -> <<97, 116, 108>>
      [] s = "wsh" -> <<119, 115, 104>>
      [] s = "notes" -> <<110, 111, 116, 101, 115>>
      [] s = ".csv" -> <<46, 99, 115, 118>>
      [] s = ".txt" -> <<46, 116, 120, 116>>
      [] s = "_combined_depth_chart" ->
            <<95, 99, 111, 109, 98, 105, 110, 101, 100, 95, 100, 101, 112, 116, 104,
              95, 99, 104, 97, 114, 116>>
      [] s = "master_nfl_depth_chart" ->
            <<109, 97, 115, 116, 101, 114, 95, 110, 102, 108, 95, 100, 101, 112, 116,
              104, 95, 99, 104, 97, 114, 116>>

RECURSIVE LexLess(_, _)
LexLess(a, b) ==
    IF b = <<>> THEN FALSE
    ELSE IF a = <<>> THEN TRUE
    ELSE IF Head(a) # Head(b) THEN Head(a) < Head(b)
    ELSE LexLess(Tail(a), Tail(b))

StrLess(s, t) == LexLess(Chars(s), Chars(t))

Range(s) == {s[i] : i \in 1..Len(s)}

\* the pairs <<x, y>> of elements of s with x < y under the sort's comparison
\* are passed as the set less.
\* list.sort / sorted: a stable sort; x goes in front of the first element
\* that is greater than it, behind every element that is not
StableInsert(x, sorted, less) ==
    LET greater == {i \in 1..Len(sorted) : <<x, sorted[i]>> \in less}
        p == IF greater = {} THEN Len(sorted) + 1
             ELSE CHOOSE i \in greater : \A j \in greater : i <= j
    IN  SubSeq(sorted, 1, p - 1) \o <<x>> \o SubSeq(sorted, p, Len(sorted))

StableSort(s, less) ==
    LET f[n \in 0..Len(s)] == IF n = 0 THEN <<>> ELSE StableInsert(s[n], f[n - 1], less)
    IN  f[Len(s)]

(***************************************************************************)
(* start_combining.combine_team_depth_charts                               *)
(***************************************************************************)
Offense == "_offense.csv"
Defense == "_defense.csv"
SpecialTeams == "_special_teams.csv"
FileTypes == {Offense, Defense, SpecialTeams}

\* unit_priority_map.get(x, 999)
UnitPriority(suffix) ==
    CASE suffix = Offense -> 1
      [] suffix = Defense -> 2
      [] suffix = SpecialTeams -> 3
      [] OTHER -> 999

\* a mutant: punter and holder change places
SpecialTeamsPositionOrderHolderFirst(position_name) ==
    CASE position_name = "PK" -> 1
      [] position_name = "H" -> 2
      [] position_name = "P" -> 3
      [] position_name = "LS" -> 4
      [] position_name = "PR" -> 5
      [] position_name = "KR" -> 6
      [] OTHER -> 999

\* special_teams_position_order.get(position_name, 999)
SpecialTeamsPositionOrder(position_name) ==
    CASE position_name = "PK" -> 1
      [] position_name = "P" -> 2
      [] position_name = "H" -> 3
      [] position_name = "LS" -> 4
      [] position_name = "PR" -> 5
      [] position_name = "KR" -> 6
      [] OTHER -> 999

\* a mutant: the unit files are read in the order of the directory listing
SortedFileTypesListingOrder(listing) == listing

\* sorted(files_info.keys(), key=lambda x: unit_priority_map.get(x, 999))
FileTypeLess(x, y) == UnitPriority(x) < UnitPriority(y)
SortedFileTypes(listing) ==
    StableSort(listing, {p \in Range(listing) \X Range(listing) : FileTypeLess(p[1], p[2])})

\* a mutant: the uid test is left out
SkipRowNoUidTest(row) ==
    \/ row.PlayerName = "-"
    \/ row.Position = "Empty Slot"

\* line 100: the rows the loop passes over
SkipRow(row) ==
    \/ row.PlayerUID = ""
    \/ row.PlayerName = "-"
    \/ row.Position = "Empty Slot"

\* the default factory of consolidated_players
DefaultPlayer(team_name) ==
    [TeamName |-> team_name, PlayerName |-> "", PlayerURL |-> "", PlayerUID |-> "",
     InjuryStatus |-> "", all_positions |-> <<>>]

\* lines 106-113: the display fields
UpdateInfo(cur, row) ==
    IF cur.PlayerName = "" \/ cur.PlayerName = "Empty Slot"
    THEN [cur EXCEPT !.PlayerName = row.PlayerName,
                     !.PlayerURL = row.PlayerURL,
                     !.PlayerUID = row.PlayerUID,
                     !.InjuryStatus = IF row.InjuryStatus # "Empty Slot"
                                      THEN row.InjuryStatus ELSE ""]
    ELSE IF cur.InjuryStatus = "Empty Slot" /\ row.InjuryStatus # "Empty Slot"
    THEN [cur EXCEPT !.InjuryStatus = row.InjuryStatus]
    ELSE cur

\* a mutant: every row is accumulated
HasPositionAndDepthAlways(position, depth) == TRUE

\* line 116: if position and depth
HasPositionAndDepth(position, depth) == position # "" /\ depth # ""

\* a mutant: the duplicate test of line 118 is left out
AddPositionNoDuplicateTest(cur, unit_priority, row) ==
    LET entry == <<unit_priority, row.Position, row.Depth>> IN
    IF HasPositionAndDepth(row.Position, row.Depth)
    THEN [cur EXCEPT !.all_positions = Append(@, entry)]
    ELSE cur

\* lines 115-119: the position list
AddPosition(cur, unit_priority, row) ==
    LET entry == <<unit_priority, row.Position, row.Depth>> IN
    IF HasPositionAndDepth(row.Position, row.Depth) /\ entry \notin Range(cur.all_positions)
    THEN [cur EXCEPT !.all_positions = Append(@, entry)]
    ELSE cur

\* the body of "for row in reader"
FoldRow(players, unit_priority, row) ==
    IF SkipRow(row) THEN players
    ELSE LET uid == row.PlayerUID
             cur == IF uid \in DOMAIN players THEN players[uid]
                    ELSE DefaultPlayer(row.TeamName)
         IN  (uid :> AddPosition(UpdateInfo(cur, row), unit_priority, row)) @@ players

\* a mutant: the unit priority is left out of the key
GetPositionSortKeyNoUnit(pos_tuple) ==
    <<0, pos_tuple[2], pos_tuple[3]>>

GetPositionSortKey(pos_tuple) ==
    IF pos_tuple[1] = UnitPriority(SpecialTeams)
    THEN <<pos_tuple[1], SpecialTeamsPositionOrder(pos_tuple[2]), pos_tuple[3]>>
    ELSE <<pos_tuple[1], pos_tuple[2], pos_tuple[3]>>

\* Python's tuple comparison of two keys; the second components are two ints
\* (special teams) or two strs
KeyLess(k1, k2) ==
    IF k1[1] # k2[1] THEN k1[1] < k2[1]
    ELSE IF k1[2] # k2[2]
         THEN IF k1[1] = UnitPriority(SpecialTeams) THEN k1[2] < k2[2]
              ELSE StrLess(k1[2], k2[2])
         ELSE StrLess(k1[3], k2[3])

PositionLess(a, b) == KeyLess(GetPositionSortKey(a), GetPositionSortKey(b))

SortPositions(all_positions) ==
    StableSort(all_positions,
               {p \in Range(all_positions) \X Range(all_positions) : PositionLess(p[1], p[2])})

\* sorted(consolidated_players.keys())
SetToSeq(S) == CHOOSE f \in [1..Cardinality(S) -> S] : Range(f) = S
SortedKeys(players) ==
    StableSort(SetToSeq(DOMAIN players),
               {p \in (DOMAIN players) \X (DOMAIN players) : StrLess(p[1], p[2])})

\* (None, None, None) stands for a missing entry; x if x else ''
NoPosition == <<0, "", "">>
\* a mutant: the test len(all_positions) > n - 1 reads len(all_positions) > n
NthPositionShort(all_positions, n) ==
    IF Len(all_positions) > n THEN all_positions[n] ELSE NoPosition

NthPosition(all_positions, n) ==
    IF Len(all_positions) >= n THEN all_positions[n] ELSE NoPosition

OutputRow(player_data) ==
    LET primary_pos == NthPosition(player_data.all_positions, 1)
        secondary_pos == NthPosition(player_data.all_positions, 2)
        tertiary_pos == NthPosition(player_data.all_positions, 3)
    IN  [TeamName |-> player_data.TeamName,
         PrimaryPosition |-> primary_pos[2], PrimaryDepth |-> primary_pos[3],
         PlayerName |-> player_data.PlayerName, PlayerURL |-> player_data.PlayerURL,
         PlayerUID |-> player_data.PlayerUID, InjuryStatus |-> player_data.InjuryStatus,
         Position2 |-> secondary_pos[2], Depth2 |-> secondary_pos[3],
         Position3 |-> tertiary_pos[2], Depth3 |-> tertiary_pos[3]]

\* the in-place sort of line 152
SortAllPositions(players) ==
    [k \in DOMAIN players |->
        [players[k] EXCEPT !.all_positions = SortPositions(@)]]

OutputRows(players) ==
    LET keys == SortedKeys(players) IN
    [i \in 1..Len(keys) |-> OutputRow(SortAllPositions(players)[keys[i]])]

(***************************************************************************)
(* The rows of the unit files: rows as convert_to_csv writes them, and     *)
(* rows with a blank Position or Depth.                                    *)
(***************************************************************************)
Al == [name |-> "Al", url |-> "/al", uid |-> "u1", status |-> None]
AlanQ == [name |-> "Alan", url |-> "/alan", uid |-> "u1", status |-> "Q"]
Bo == [name |-> "Bo", url |-> "/bo", uid |-> "u2", status |-> None]
CyNoUid == [name |-> "Cy", url |-> "/cy", uid |-> None, status |-> None]
DashU2 == [name |-> "-", url |-> "", uid |-> "u2", status |-> None]

PoolPriority ==
    { PlayerCsvRow(TeamName, "WR", 2, Al),
      PlayerCsvRow(TeamName, "PR", 1, Al),
      PlayerCsvRow(TeamName, "P", 1, Al),
      PlayerCsvRow(TeamName, "H", 1, Al),
      PlayerCsvRow(TeamName, "K", 1, Al),
      [PlayerCsvRow(TeamName, "WR", 1, Al) EXCEPT !.Position = ""],
      [PlayerCsvRow(TeamName, "WR", 1, Al) EXCEPT !.Depth = ""] }

PoolIdentity ==
    { PlayerCsvRow(TeamName, "WR", 2, Al),
      PlayerCsvRow(TeamName, "PR", 1, AlanQ),
      PlayerCsvRow(TeamName, "WR", 2, CyNoUid),
      PlayerCsvRow(TeamName, "PR", 1, CyNoUid),
      PlayerCsvRow(TeamName, "WR", 2, Bo),
      PlayerCsvRow(TeamName, "PR", 1, DashU2),
      EmptySlotCsvRow(TeamName, "WR", 2) }

\* one position at the depths 1, 2 and 10
PoolDepth ==
    { PlayerCsvRow(TeamName, "WR", 1, Al),
      PlayerCsvRow(TeamName, "WR", 2, Al),
      PlayerCsvRow(TeamName, "WR", 10, Al) }

\* one player at three positions, for position lists of more than three entries
PoolProjection ==
    { PlayerCsvRow(TeamName, "WR", 2, Al),
      PlayerCsvRow(TeamName, "PR", 1, Al),
      PlayerCsvRow(TeamName, "H", 1, Al) }

\* one uid under two names, and a row of that uid with a blank name
PoolName ==
    { PlayerCsvRow(TeamName, "WR", 2, Al),
      PlayerCsvRow(TeamName, "PR", 1, AlanQ),
      PlayerCsvRow(TeamName, "K", 1, [Al EXCEPT !.name = "", !.url = "/blank"]) }

\* two positions that special_teams_position_order does not hold, at the
\* same depth, and one behind them
PoolTies ==
    { PlayerCsvRow(TeamName, "K", 1, Al),
      PlayerCsvRow(TeamName, "KOS", 1, Al),
      PlayerCsvRow(TeamName, "K", 2, Al) }

Pools == {PoolPriority, PoolIdentity, PoolDepth, PoolProjection, PoolName, PoolTies}

\* the number of rows read in one run
RowLimit(rows) == IF rows = PoolProjection THEN MaxProjectionRows ELSE MaxRows

\* os.listdir order of one team's unit files
Listings ==
    {l \in SeqsUpTo(FileTypes, Cardinality(FileTypes)) :
        /\ l # <<>>
        /\ \A i, j \in 1..Len(l) : i # j => l[i] # l[j]}

(***************************************************************************)
(* Spec                                                                    *)
(***************************************************************************)
ParseIdle ==
    /\ posTable = NoLeftTable
    /\ playerTable = NoScroller
    /\ parsed = NoneDict
    /\ csv_rows = <<>>
    /\ parsed_players = <<>>
    /\ pcParse = "idle"

Init ==
    /\ pool \in Pools
    /\ sorted_file_types = <<>>
    /\ fileIdx = 0
    /\ seen = <<>>
    /\ consolidated_players = <<>>
    /\ output_rows = <<>>
    /\ pc = "list"
    /\ ParseIdle
    /\ StagesIdle

ListFiles ==
    /\ pc = "list"
    /\ \E listing \in Listings : sorted_file_types' = SortedFileTypes(listing)
    /\ fileIdx' = 1
    /\ pc' = "read"
    /\ UNCHANGED <<pool, seen, consolidated_players, output_rows>>
    /\ UNCHANGED <<parseVars, stageVars>>

ReadRow ==
    /\ pc = "read"
    /\ fileIdx <= Len(sorted_file_types)
    /\ Len(seen) < RowLimit(pool)
    /\ \E row \in pool :
          LET current_unit_priority == UnitPriority(sorted_file_types[fileIdx]) IN
          /\ consolidated_players' = FoldRow(consolidated_players, current_unit_priority, row)
          /\ seen' = Append(seen, [unit |-> current_unit_priority, row |-> row])
    /\ UNCHANGED <<pool, sorted_file_types, fileIdx, output_rows, pc>>
    /\ UNCHANGED <<parseVars, stageVars>>

EndOfFile ==
    /\ pc = "read"
    /\ fileIdx <= Len(sorted_file_types)
    /\ fileIdx' = fileIdx + 1
    /\ UNCHANGED <<pool, sorted_file_types, seen, consolidated_players, output_rows, pc>>
    /\ UNCHANGED <<parseVars, stageVars>>

WriteCombined ==
    /\ pc = "read"
    /\ fileIdx > Len(sorted_file_types)
    /\ consolidated_players' = SortAllPositions(consolidated_players)
    /\ output_rows' = OutputRows(consolidated_players)
    /\ pc' = "done"
    /\ UNCHANGED <<pool, sorted_file_types, fileIdx, seen>>
    /\ UNCHANGED <<parseVars, stageVars>>

Next == ListFiles \/ ReadRow \/ EndOfFile \/ WriteCombined

Spec == Init /\ [][Next]_vars

(***************************************************************************)
(* Properties of the section parser (SpecParse)                            *)
(***************************************************************************)
\* P: the number of labels the position table yields
LabelCount == Cardinality({i \in 1..Len(posTable.rows) : posTable.rows[i].span})
\* the link cells of the first n rows of the player table
LinkCells(n) ==
    {<<i, j>> \in (1..n) \X (1..(MaxCells + 1)) :
        /\ i <= Len(playerTable.rows)
        /\ j <= Len(playerTable.rows[i])
        /\ playerTable.rows[i][j] = Link}

CsvPlayerRows == SelectSeq(csv_rows, LAMBDA r : r.InjuryStatus # "Empty Slot")

\* C2: every player in cell j of player-table row i, for i below the aligned
\* length, is written exactly once, with the label of position-table row i and
\* depth j+1, also when some position-table row carries no label element (the
\* statement is made for the rows i that do carry a label).
C2_ZipByRowIndex ==
    pcParse = "csv" =>
        LET aligned == Min(LabelCount, Len(playerTable.rows)) IN
        /\ Len(CsvPlayerRows) = Cardinality(LinkCells(aligned))
        /\ \A c \in LinkCells(aligned) :
              posTable.rows[c[1]].span =>
                  Cardinality({k \in 1..Len(CsvPlayerRows) :
                      /\ CsvPlayerRows[k].Position = Head(posTable.rows[c[1]].text)
                      /\ CsvPlayerRows[k].Depth = Str(c[2])
                      /\ CsvPlayerRows[k].PlayerName = LinkAt(c[1], c[2]).name}) = 1

(***************************************************************************)
(* Properties of the combine stage (Spec)                                  *)
(***************************************************************************)
SeenIdx == 1..Len(seen)
\* a row that names a player (not a filler row)
IsPlayerRow(row) == row.PlayerName \notin {"", "-"}
\* a row as convert_to_csv writes it for an empty slot
IsEmptySlotRow(row) ==
    /\ row.PlayerName = "" /\ row.PlayerURL = "" /\ row.PlayerUID = ""
    /\ row.InjuryStatus = "Empty Slot"
\* the rows of the output that carry the given uid
OutputIdx == 1..Len(output_rows)
\* the (unit, position, depth) sightings of a uid in the rows read
SightedEntries(uid) ==
    {<<seen[i].unit, seen[i].row.Position, seen[i].row.Depth>> : i \in
        {i \in SeenIdx : /\ seen[i].row.PlayerUID = uid
                         /\ seen[i].row.PlayerName # "-"
                         /\ seen[i].row.Position \notin {"", "Empty Slot"}
                         /\ seen[i].row.Depth # ""}}
Units(entries) == {e[1] : e \in entries}
MinOf(S) == CHOOSE x \in S : \A y \in S : x <= y

\* C3: the primary position/depth of an output row is one of the player's
\* sighted entries of the highest-priority unit the player has an entry in,
\* whatever the order of the directory listing and of the rows.
C3_UnitPriority ==
    pc = "done" =>
        \A k \in OutputIdx :
            LET entries == SightedEntries(output_rows[k].PlayerUID) IN
            entries # {} =>
                <<MinOf(Units(entries)), output_rows[k].PrimaryPosition,
                  output_rows[k].PrimaryDepth>> \in entries

\* Offense WR depth 2 and SpecialTeams PR depth 1 of one player: primary is WR/2
C3_Witness ==
    /\ pc = "done"
    /\ \E k \in OutputIdx :
          /\ <<1, "WR", "2">> \in SightedEntries(output_rows[k].PlayerUID)
          /\ <<3, "PR", "1">> \in SightedEntries(output_rows[k].PlayerUID)
          /\ output_rows[k].PrimaryPosition = "WR"
          /\ output_rows[k].PrimaryDepth = "2"

\* the fixed special-teams order, most important first
SpecialTeamsOrderList == <<"PK", "P", "H", "LS", "PR", "KR">>
SpecialTeamsRank(position) ==
    IF \E i \in 1..Len(SpecialTeamsOrderList) : SpecialTeamsOrderList[i] = position
    THEN CHOOSE i \in 1..Len(SpecialTeamsOrderList) : SpecialTeamsOrderList[i] = position
    ELSE Len(SpecialTeamsOrderList) + 1

\* C4: in every player's written position list the SpecialTeams entries stand
\* in the order PK, P, H, LS, PR, KR, positions outside the table last,
\* whatever the order in which the rows were read; the output columns follow.
C4_SpecialTeamsOrder ==
    pc = "done" =>
        \A uid \in DOMAIN consolidated_players :
            LET ap == consolidated_players[uid].all_positions IN
            /\ \A i, j \in 1..Len(ap) :
                  (i < j /\ ap[i][1] = 3 /\ ap[j][1] = 3) =>
                      SpecialTeamsRank(ap[i][2]) <= SpecialTeamsRank(ap[j][2])
            /\ \A k \in OutputIdx :
                  (output_rows[k].PlayerUID = uid /\ Len(ap) >= 2 /\ ap[1][1] = 3) =>
                      SpecialTeamsRank(output_rows[k].PrimaryPosition)
                          <= SpecialTeamsRank(output_rows[k].Position2)

\* holder read before punter in the special-teams file: punter is primary
C4_Witness ==
    /\ pc = "done"
    /\ \E i, j \in SeenIdx :
          /\ i < j
          /\ seen[i].unit = 3 /\ seen[i].row.Position = "H"
          /\ seen[j].unit = 3 /\ seen[j].row.Position = "P"
          /\ seen[i].row.PlayerUID = seen[j].row.PlayerUID
          /\ \E k \in OutputIdx :
                /\ output_rows[k].PlayerUID = seen[i].row.PlayerUID
                /\ output_rows[k].PrimaryPosition = "P"
                /\ output_rows[k].Position2 = "H"

\* the first row read that names a player with this uid
IsFirstSighting(i) ==
    /\ IsPlayerRow(seen[i].row)
    /\ \A h \in SeenIdx :
          (h < i /\ IsPlayerRow(seen[h].row)) =>
              seen[h].row.PlayerUID # seen[i].row.PlayerUID

\* C5: a player whose first sighting has an empty status and who is sighted
\* later with a non-empty status ends with a non-empty status, and with the
\* name and URL of the first sighting.
C5_StatusOverwrite ==
    pc = "done" =>
        \A i, j \in SeenIdx :
            ( /\ i < j
              /\ seen[i].row.PlayerUID # ""
              /\ seen[j].row.PlayerUID = seen[i].row.PlayerUID
              /\ IsFirstSighting(i)
              /\ IsPlayerRow(seen[j].row)
              /\ seen[i].row.InjuryStatus = ""
              /\ seen[j].row.InjuryStatus \notin {"", "Empty Slot"} ) =>
                \E k \in OutputIdx :
                    /\ output_rows[k].PlayerUID = seen[i].row.PlayerUID
                    /\ output_rows[k].InjuryStatus # ""
                    /\ output_rows[k].PlayerName = seen[i].row.PlayerName
                    /\ output_rows[k].PlayerURL = seen[i].row.PlayerURL

\* the positions an output row shows
ShownPositions(r) ==
    {<<r.PrimaryPosition, r.PrimaryDepth>>, <<r.Position2, r.Depth2>>,
     <<r.Position3, r.Depth3>>}

\* C6: two sightings without uid and with the same name make one output row,
\* which shows the positions of both.
C6_IdentityFallback ==
    pc = "done" =>
        \A i, j \in SeenIdx :
            ( /\ i < j
              /\ IsPlayerRow(seen[i].row) /\ IsPlayerRow(seen[j].row)
              /\ seen[i].row.PlayerUID = "" /\ seen[j].row.PlayerUID = ""
              /\ seen[i].row.PlayerName = seen[j].row.PlayerName ) =>
                /\ Cardinality({k \in OutputIdx :
                       /\ output_rows[k].PlayerUID = ""
                       /\ output_rows[k].PlayerName = seen[i].row.PlayerName}) = 1
                /\ \E k \in OutputIdx :
                       /\ output_rows[k].PlayerName = seen[i].row.PlayerName
                       /\ <<seen[i].row.Position, seen[i].row.Depth>>
                              \in ShownPositions(output_rows[k])
                       /\ <<seen[j].row.Position, seen[j].row.Depth>>
                              \in ShownPositions(output_rows[k])

\* C7: a sighting with a uid and a sighting without one end as two separate
\* rows of the output.
C7_NoCrossKeyMerge ==
    pc = "done" =>
        \A i, j \in SeenIdx :
            ( /\ IsPlayerRow(seen[i].row) /\ IsPlayerRow(seen[j].row)
              /\ seen[i].row.PlayerUID # ""
              /\ seen[j].row.PlayerUID = "" ) =>
                \E k, l \in OutputIdx :
                    /\ k # l
                    /\ output_rows[k].PlayerUID = seen[i].row.PlayerUID
                    /\ output_rows[l].PlayerUID = ""
                    /\ output_rows[l].PlayerName = seen[j].row.PlayerName

\* the identity key: the uid, or (name, team) where there is none
IdentityKey(uid, name, team) ==
    IF uid # "" THEN <<"uid", uid>> ELSE <<"name", name, team>>
RowKey(row) == IdentityKey(row.PlayerUID, row.PlayerName, row.TeamName)

\* C8: the output holds exactly one row per identity key that had a sighting
\* naming a player, and no key twice.
C8_OneRowPerIdentity ==
    pc = "done" =>
        LET sighted == {RowKey(seen[i].row) : i \in {i \in SeenIdx : IsPlayerRow(seen[i].row)}}
        IN  /\ {RowKey(output_rows[k]) : k \in OutputIdx} = sighted
            /\ Len(output_rows) = Cardinality(sighted)

\* the position entries held by all players together
EntryCount(players) ==
    Cardinality({<<uid, e>> \in (DOMAIN players) \X
                    UNION {Range(players[u].all_positions) : u \in DOMAIN players} :
                        e \in Range(players[uid].all_positions)})

\* C9: reading an Empty Slot row, as the CSV stage writes it, leaves
\* consolidated_players unchanged; no player is keyed by the blank uid, and no
\* output row has a blank uid.
C9_EmptySlotExclusion ==
    /\ [][(pc = "read" /\ Len(seen') = Len(seen) + 1
             /\ IsEmptySlotRow(seen'[Len(seen')].row))
            => consolidated_players' = consolidated_players]_vars
    /\ []("" \notin DOMAIN consolidated_players)
    /\ [](\A k \in OutputIdx : output_rows[k].PlayerUID # "")
    /\ []((pc = "done" /\ \A i \in SeenIdx : IsEmptySlotRow(seen[i].row))
            => (output_rows = <<>> /\ EntryCount(consolidated_players) = 0))

\* only Empty Slot rows were read, and the output is written without a row
C9_Witness ==
    /\ pc = "done"
    /\ Len(seen) >= 2
    /\ \A i \in SeenIdx : IsEmptySlotRow(seen[i].row)
    /\ output_rows = <<>>

\* C10 as stated: every output row has an accumulated entry and a non-empty
\* PrimaryPosition and PrimaryDepth.
C10_EveryRowHasEntry ==
    pc = "done" =>
        \A k \in OutputIdx :
            /\ Len(consolidated_players[output_rows[k].PlayerUID].all_positions) >= 1
            /\ output_rows[k].PrimaryPosition # ""
            /\ output_rows[k].PrimaryDepth # ""

\* C10 amended: an output row has an accumulated entry, and a non-empty
\* PrimaryPosition and PrimaryDepth, exactly when some row folded for its uid
\* carried both a Position and a Depth; a uid whose rows all lack one of the
\* two is written with both columns empty.
C10_EntryIffPositionAndDepth ==
    pc = "done" =>
        \A k \in OutputIdx :
            LET uid == output_rows[k].PlayerUID
                full == SightedEntries(uid) # {}
            IN  /\ (Len(consolidated_players[uid].all_positions) >= 1) <=> full
                /\ (output_rows[k].PrimaryPosition # "") <=> full
                /\ (output_rows[k].PrimaryDepth # "") <=> full

\* a uid read only with a blank Position: written, with empty primary columns
C10_Witness ==
    /\ pc = "done"
    /\ \E k \in OutputIdx :
          /\ SightedEntries(output_rows[k].PlayerUID) = {}
          /\ output_rows[k].PlayerName = "Al"
          /\ output_rows[k].PrimaryPosition = ""
          /\ output_rows[k].PrimaryDepth = ""
          /\ \E i \in SeenIdx : seen[i].row.Position = "" /\ seen[i].row.PlayerUID = "u1"

\* C11: no position list holds the same (unit, position, depth) tuple twice,
\* and reading a row whose tuple the player already has leaves the list as it is.
C11_NoDuplicateTuples ==
    /\ [](\A uid \in DOMAIN consolidated_players :
            LET ap == consolidated_players[uid].all_positions IN
            \A i, j \in 1..Len(ap) : i # j => ap[i] # ap[j])
    /\ [][(pc = "read" /\ Len(seen') = Len(seen) + 1) =>
            LET s == seen'[Len(seen')]
                uid == s.row.PlayerUID
            IN  (uid \in DOMAIN consolidated_players
                 /\ <<s.unit, s.row.Position, s.row.Depth>>
                        \in Range(consolidated_players[uid].all_positions))
                => consolidated_players'[uid].all_positions
                       = consolidated_players[uid].all_positions]_vars

\* the same row read twice from one file: one entry
C11_Witness ==
    /\ Len(seen) >= 2
    /\ seen[1] = seen[2]
    /\ seen[1].row.PlayerUID = "u1"
    /\ seen[1].row.Position = "WR"
    /\ seen[1].row.Depth = "2"
    /\ "u1" \in DOMAIN consolidated_players
    /\ Len(consolidated_players["u1"].all_positions) = 1

\* the number a depth column denotes (a string of decimal digits)
DepthValue(depth) ==
    LET c == Chars(depth)
        val[i \in 0..Len(c)] == IF i = 0 THEN 0 ELSE 10 * val[i - 1] + (c[i] - 48)
    IN  val[Len(c)]
\* the rank of a position name within its unit: the table of the special
\* teams, the name itself elsewhere
SamePositionRank(a, b) ==
    /\ a[1] = b[1]
    /\ IF a[1] = UnitPriority(SpecialTeams)
       THEN SpecialTeamsRank(a[2]) = SpecialTeamsRank(b[2])
       ELSE a[2] = b[2]

\* C12: in a written position list, of two entries of the same unit and the
\* same position rank the one with the numerically smaller depth stands first,
\* depths of 10 and above included.
C12_DepthNumericallyAscending ==
    pc = "done" =>
        \A uid \in DOMAIN consolidated_players :
            LET ap == consolidated_players[uid].all_positions IN
            \A i, j \in 1..Len(ap) :
                (i < j /\ SamePositionRank(ap[i], ap[j]))
                    => DepthValue(ap[i][3]) <= DepthValue(ap[j][3])

\* the header of the combined file
OutputColumns ==
    {"TeamName", "PrimaryPosition", "PrimaryDepth", "PlayerName", "PlayerURL",
     "PlayerUID", "InjuryStatus", "Position2", "Depth2", "Position3", "Depth3"}
\* the position and depth columns of an output row, in order
ShownSeq(r) ==
    <<<<r.PrimaryPosition, r.PrimaryDepth>>, <<r.Position2, r.Depth2>>,
      <<r.Position3, r.Depth3>>>>

\* C13: the position list of a written player is the sorted arrangement of the
\* player's sighted entries; the three position/depth column pairs of the
\* player's row are its first, second and third entry, empty strings where the
\* list is shorter, and the row has no column for a further entry.
C13_OutputProjection ==
    pc = "done" =>
        \A k \in OutputIdx :
            LET r == output_rows[k]
                ap == consolidated_players[r.PlayerUID].all_positions
            IN  /\ DOMAIN r = OutputColumns
                /\ Range(ap) = SightedEntries(r.PlayerUID)
                /\ Len(ap) = Cardinality(SightedEntries(r.PlayerUID))
                /\ \A i, j \in 1..Len(ap) : i < j => ~PositionLess(ap[j], ap[i])
                /\ \A n \in 1..3 :
                      ShownSeq(r)[n] = IF n <= Len(ap) THEN <<ap[n][2], ap[n][3]>>
                                       ELSE <<"", "">>

\* a player with four entries: the fourth is kept in the list and not written
C13_Witness ==
    /\ pc = "done"
    /\ Len(output_rows) = 1
    /\ Len(consolidated_players[output_rows[1].PlayerUID].all_positions) = 4
    /\ output_rows[1].Position3 # ""

\* the rows read that name the player uid
NamedSightings(uid) ==
    {i \in SeenIdx : /\ seen[i].row.PlayerUID = uid
                     /\ IsPlayerRow(seen[i].row)
                     /\ seen[i].row.Position # "Empty Slot"}
\* the first of them in unit-priority order, rows of one unit in file order
FirstInUnitOrder(S) ==
    CHOOSE i \in S : \A j \in S :
        \/ seen[i].unit < seen[j].unit
        \/ seen[i].unit = seen[j].unit /\ i <= j

AllSightings(uid) ==
    {i \in SeenIdx : seen[i].row.PlayerUID = uid /\ ~SkipRow(seen[i].row)}

EmptyCell == ""
TextCell == "text"
\* a cell whose a.AnchorLink has no href attribute
LinkNoHref == "link without href"
RowCellKinds == {Link, Dash, EmptyCell, TextCell, LinkNoHref}

\* cell.find('a', class_='AnchorLink') finds an element
HasPlayerLink(cell) == cell \in {Link, LinkNoHref}

ParseAndCombineIdle == ParseIdle /\ CombineIdle

InitRow ==
    /\ row_cells \in SeqsUpTo(RowCellKinds, MaxRowCells)
    /\ players_in_row = <<>>
    /\ cellIdx = 0
    /\ pcRow = "scan"
    /\ ParseAndCombineIdle
    /\ BatchIdle
    /\ FetchIdle
    /\ MasterIdle
    /\ RunsIdle
    /\ ToolIdle

\* one pass of the loop of line 48; player_link['href'] of line 52 raises
\* KeyError on a link without href, and nothing catches it
ScanCell ==
    /\ pcRow = "scan"
    /\ cellIdx < Len(row_cells)
    /\ IF row_cells[cellIdx + 1] = LinkNoHref
       THEN /\ pcRow' = "raised"
            /\ UNCHANGED <<players_in_row, cellIdx>>
       ELSE /\ players_in_row' = PlayersInRow(1, SubSeq(row_cells, 1, cellIdx + 1))
            /\ cellIdx' = cellIdx + 1
            /\ pcRow' = pcRow
    /\ UNCHANGED row_cells
    /\ UNCHANGED <<parseVars, combineVars, batchVars, fetchVars, masterVars, runVars, toolVars>>

\* line 70: the row is appended to player_data_rows
RowDone ==
    /\ pcRow = "scan"
    /\ cellIdx = Len(row_cells)
    /\ pcRow' = "done"
    /\ UNCHANGED <<row_cells, players_in_row, cellIdx>>
    /\ UNCHANGED <<parseVars, combineVars, batchVars, fetchVars, masterVars, runVars, toolVars>>

NextRow == ScanCell \/ RowDone

SpecRow == InitRow /\ [][NextRow]_vars

\* C16: the parse of every row ends with one slot per cell, in cell order: a
\* player for a cell that contains a player link, None for every other cell.
C16_OneSlotPerCell ==
    pcRow \in {"done", "raised"} =>
        /\ pcRow = "done"
        /\ Len(players_in_row) = Len(row_cells)
        /\ \A j \in 1..Len(row_cells) :
              /\ HasPlayerLink(row_cells[j]) <=> players_in_row[j] # NoneDict
              /\ HasPlayerLink(row_cells[j]) => players_in_row[j] = LinkAt(1, j)

\* C16 for the rows whose links all have an href
C16_OneSlotPerCellWithHref ==
    (pcRow = "done") =>
        /\ Len(players_in_row) = Len(row_cells)
        /\ \A j \in 1..Len(row_cells) :
              /\ HasPlayerLink(row_cells[j]) <=> players_in_row[j] # NoneDict
              /\ HasPlayerLink(row_cells[j]) => players_in_row[j] = LinkAt(1, j)

(***************************************************************************)
(* SpecBatch: the file loop of process_defenses.py (lines 182-249) over    *)
(* sections whose nested elements may be missing.                          *)
(***************************************************************************)
\* a table element with or without a tbody child
WithTbody(table, present) ==
    [f \in DOMAIN table \cup {"tbody"} |-> IF f = "tbody" THEN present ELSE table[f]]

GoodLeft == WithTbody([found |-> TRUE, rows |-> <<[span |-> TRUE, text |-> <<"QB">>],
                                                  [span |-> TRUE, text |-> <<"RB", "2nd">>]>>], TRUE)
GoodRight == WithTbody([scroller |-> TRUE, table |-> TRUE,
                        rows |-> <<<<Link, Dash>>, <<Link, Link>>>>], TRUE)
\* a statCell span whose text is empty or blank: text.split() is []
EmptyLabel == [span |-> TRUE, text |-> <<>>]

GoodPage == [left |-> GoodLeft, right |-> GoodRight]
NoLeftTablePage == [left |-> WithTbody(NoLeftTable, FALSE), right |-> GoodRight]
NoLabelsPage ==
    [left |-> WithTbody([found |-> TRUE, rows |-> <<NoSpan>>], TRUE), right |-> GoodRight]
NoScrollerPage == [left |-> GoodLeft, right |-> WithTbody(NoScroller, FALSE)]
NoTablePage == [left |-> GoodLeft, right |-> WithTbody(NoTable, FALSE)]
LeftNoTbodyPage ==
    [left |-> [GoodLeft EXCEPT !.tbody = FALSE], right |-> WithTbody(NoScroller, FALSE)]
EmptyLabelPage ==
    [left |-> [GoodLeft EXCEPT !.rows = <<EmptyLabel>>], right |-> GoodRight]
RightNoTbodyPage == [left |-> GoodLeft, right |-> [GoodRight EXCEPT !.tbody = FALSE]]
LinkNoHrefPage ==
    [left |-> GoodLeft, right |-> [GoodRight EXCEPT !.rows = <<<<Link, LinkNoHref>>>>]]

WellFormedPages == {GoodPage, NoLeftTablePage, NoLabelsPage, NoScrollerPage, NoTablePage}
MalformedPages == {LeftNoTbodyPage, EmptyLabelPage, RightNoTbodyPage, LinkNoHrefPage}
Pages == WellFormedPages \cup MalformedPages

\* an exception leaves parse_depth_chart_html
Raised == [raised |-> TRUE]

\* lines 30-34: left_table.find('tbody') is None (AttributeError on
\* .find_all), or position_span.text.split() is empty (IndexError on [0])
LeftRaises(left) ==
    /\ left.found
    /\ \/ ~left.tbody
       \/ \E i \in 1..Len(left.rows) : left.rows[i] = EmptyLabel

\* lines 46-52: right_table.find('tbody') is None, or player_link['href']
\* on a link without href (KeyError)
RightRaises(right) ==
    /\ right.scroller
    /\ right.table
    /\ \/ ~right.tbody
       \/ \E i \in 1..Len(right.rows) : \E j \in 1..Len(right.rows[i]) :
             right.rows[i][j] = LinkNoHref

\* parse_depth_chart_html on a section whose nested elements may be missing
ParseOutcome(page) ==
    IF LeftRaises(page.left) THEN Raised
    ELSE IF Positions(page.left) = <<>> THEN NoneDict
    ELSE IF RightRaises(page.right) THEN Raised
    ELSE ParseDepthChartHtml(page.left, page.right)

\* the files of input_directory: content is <<>> for an empty file, <<page>>
\* for a file holding one section
OtherFile == [defense |-> FALSE, readable |-> TRUE, content |-> <<>>]
UnreadableFile == [defense |-> TRUE, readable |-> FALSE, content |-> <<>>]
EmptyFile == [defense |-> TRUE, readable |-> TRUE, content |-> <<>>]
PageFile(page) == [defense |-> TRUE, readable |-> TRUE, content |-> <<page>>]
BatchFileKinds == {OtherFile, UnreadableFile, EmptyFile} \cup {PageFile(p) : p \in Pages}

\* what one pass of the loop of line 182 does with a file
FileOutcome(file) ==
    IF ~file.defense THEN "ignored"
    ELSE IF ~file.readable THEN "unreadable"
    ELSE IF file.content = <<>> THEN "no content"
    ELSE LET parsed_data == ParseOutcome(file.content[1]) IN
         IF parsed_data = Raised THEN "raised"
         ELSE IF parsed_data = NoneDict THEN "failed"
         ELSE "written"

InitBatch ==
    /\ batch_files \in SeqsUpTo(BatchFileKinds, MaxFiles)
    /\ batchIdx = 0
    /\ batch_log = <<>>
    /\ xml_written = {}
    /\ csv_written = {}
    /\ pcBatch = "loop"
    /\ ParseAndCombineIdle
    /\ RowIdle
    /\ FetchIdle
    /\ MasterIdle
    /\ RunsIdle
    /\ ToolIdle

\* one pass of the loop; the call of line 207 is outside every try, so an
\* exception of the parser ends the script
ProcessFile ==
    /\ pcBatch = "loop"
    /\ batchIdx < Len(batch_files)
    /\ LET outcome == FileOutcome(batch_files[batchIdx + 1]) IN
          /\ batch_log' = Append(batch_log, outcome)
          /\ batchIdx' = batchIdx + 1
          /\ xml_written' = IF outcome = "written" THEN xml_written \cup {batchIdx + 1}
                            ELSE xml_written
          /\ csv_written' = IF outcome = "written" THEN csv_written \cup {batchIdx + 1}
                            ELSE csv_written
          /\ pcBatch' = IF outcome = "raised" THEN "raised" ELSE pcBatch
    /\ UNCHANGED batch_files
    /\ UNCHANGED <<parseVars, combineVars, rowVars, fetchVars, masterVars, runVars, toolVars>>

\* lines 246-249: the summary after the last file
BatchDone ==
    /\ pcBatch = "loop"
    /\ batchIdx = Len(batch_files)
    /\ pcBatch' = "done"
    /\ UNCHANGED <<batch_files, batchIdx, batch_log, xml_written, csv_written>>
    /\ UNCHANGED <<parseVars, combineVars, rowVars, fetchVars, masterVars, runVars, toolVars>>

NextBatch == ProcessFile \/ BatchDone

SpecBatch == InitBatch /\ [][NextBatch]_vars

\* the files passed so far
BatchIdx == 1..Len(batch_log)
\* a section file whose markup has the given property
IsPageFile(i) == batch_files[i].defense /\ batch_files[i].readable /\ batch_files[i].content # <<>>

\* C17: the parser never raises: every section, its nested elements missing
\* or malformed, ends in a record set or in the failure value.
C17_ParserNeverRaises ==
    /\ pcBatch # "raised"
    /\ \A i \in BatchIdx : batch_log[i] # "raised"

\* the section lacks the position table, its labels, or the scroller
LacksContainer(page) ==
    \/ ~page.left.found
    \/ \A i \in 1..Len(page.left.rows) : ~page.left.rows[i].span
    \/ ~page.right.scroller

\* C18: a section that lacks the position table, every label, or the scroller
\* ends in the failure value and has no XML and no CSV written, and the loop
\* passes every file of the directory.
C18_ExtractionFailureNonFatal ==
    /\ \A i \in BatchIdx :
          (IsPageFile(i) /\ LacksContainer(batch_files[i].content[1])) =>
              /\ batch_log[i] = "failed"
              /\ i \notin xml_written \cup csv_written
    /\ (pcBatch \in {"done", "raised"}
        /\ \E i \in BatchIdx : IsPageFile(i) /\ LacksContainer(batch_files[i].content[1]))
           => Len(batch_log) = Len(batch_files) /\ pcBatch = "done"

\* C18 for directories all of whose sections are well-formed
C18_NonFatalAmongWellFormed ==
    (\A i \in 1..Len(batch_files) :
        IsPageFile(i) => batch_files[i].content[1] \in WellFormedPages)
    => C18_ExtractionFailureNonFatal

(***************************************************************************)
(* SpecFetch: scraper.py, the loop over the team catalog (lines 140-159)   *)
(* and get_depth_chart_tables (lines 14-50).                               *)
(***************************************************************************)
\* nfl_teams, in the order of the dict literal
NflTeams == [i \in 1..MaxTeams |-> i]

\* what the network gives for one request: requests.get raises, the status
\* is 4xx/5xx, the page has no div.ResponsiveTable, BeautifulSoup or prettify
\* raises, or the page has k tables
NetworkError == [kind |-> "network error", tables |-> 0]
HttpError == [kind |-> "http error", tables |-> 0]
NoTables == [kind |-> "no tables", tables |-> 0]
OtherException == [kind |-> "other exception", tables |-> 0]
PageWith(k) == [kind |-> "page", tables |-> k]
Responses ==
    {NetworkError, HttpError, NoTables, OtherException} \cup {PageWith(k) : k \in 1..MaxTables}

\* a mutant: the except Exception clause of line 48 is left out
GetDepthChartTablesNoCatchAll(response) ==
    IF response \in {NetworkError, HttpError, NoTables} THEN NoneDict
    ELSE IF response = OtherException THEN Raised
    ELSE [tables |-> response.tables]

\* lines 24-50: None for every failure, the list of tables otherwise
GetDepthChartTables(response) ==
    IF response \in {NetworkError, HttpError} THEN NoneDict
    ELSE IF response = NoTables THEN NoneDict
    ELSE IF response = OtherException THEN NoneDict
    ELSE [tables |-> response.tables]

InitFetch ==
    /\ fetchIdx = 0
    /\ fetch_log = <<>>
    /\ files_written = {}
    /\ pcFetch = "loop"
    /\ ParseAndCombineIdle
    /\ RowIdle
    /\ BatchIdle
    /\ MasterIdle
    /\ RunsIdle
    /\ ToolIdle

\* one pass of the loop of line 140: one call, then the files of lines 151-154
FetchTeam ==
    /\ pcFetch = "loop"
    /\ fetchIdx < Len(NflTeams)
    /\ \E response \in Responses :
          LET team == NflTeams[fetchIdx + 1]
              raw_html_tables == GetDepthChartTables(response)
          IN  /\ fetch_log' = Append(fetch_log, [team |-> team, response |-> response])
              /\ IF raw_html_tables = Raised
                 THEN /\ pcFetch' = "raised"
                      /\ UNCHANGED <<fetchIdx, files_written>>
                 ELSE /\ files_written' =
                            IF raw_html_tables # NoneDict
                            THEN files_written \cup {<<team, i>> : i \in 1..raw_html_tables.tables}
                            ELSE files_written
                      /\ fetchIdx' = fetchIdx + 1
                      /\ pcFetch' = pcFetch
    /\ UNCHANGED <<parseVars, combineVars, rowVars, batchVars, masterVars, runVars, toolVars>>

\* the loop has passed the last team
FetchDone ==
    /\ pcFetch = "loop"
    /\ fetchIdx = Len(NflTeams)
    /\ pcFetch' = "done"
    /\ UNCHANGED <<fetchIdx, fetch_log, files_written>>
    /\ UNCHANGED <<parseVars, combineVars, rowVars, batchVars, masterVars, runVars, toolVars>>

NextFetch == FetchTeam \/ FetchDone

SpecFetch == InitFetch /\ [][NextFetch]_vars

\* every call of requests.get returns or raises, and the script is not stopped
FairSpecFetch == SpecFetch /\ WF_vars(NextFetch)

\* a response for which get_depth_chart_tables has nothing to return
IsFailure(response) == response.kind # "page"

\* C19: the calls of the fetch are the teams of the catalog, each once, in
\* catalog order; a team whose fetch failed has no file written; and the run
\* passes every team and ends.
C19_FetchOnceInOrder ==
    /\ [](/\ Len(fetch_log) <= Len(NflTeams)
          /\ \A i \in 1..Len(fetch_log) : fetch_log[i].team = NflTeams[i])
    /\ [](\A i \in 1..Len(fetch_log) :
            IF IsFailure(fetch_log[i].response)
            THEN \A k \in 1..(MaxTables + 1) : <<fetch_log[i].team, k>> \notin files_written
            ELSE \A k \in 1..(MaxTables + 1) :
                    <<fetch_log[i].team, k>> \in files_written
                        <=> k <= fetch_log[i].response.tables)
    /\ [](pcFetch # "raised")
    /\ [](pcFetch = "done" => Len(fetch_log) = Len(NflTeams))
    /\ <>(pcFetch = "done")

\* the first team's fetch fails with an exception, the last team's files are written
C19_Witness ==
    /\ pcFetch = "done"
    /\ fetch_log[1].response = OtherException
    /\ \A k \in 1..MaxTables : <<NflTeams[1], k>> \notin files_written
    /\ fetch_log[Len(NflTeams)].response = PageWith(MaxTables)
    /\ <<NflTeams[Len(NflTeams)], MaxTables>> \in files_written

(***************************************************************************)
(* SpecMaster: master_combine.create_master_depth_chart_csv.  A file name  *)
(* is the sequence of its parts, compared as the concatenated string.      *)
(***************************************************************************)
TeamCsv(slug) == <<slug, "_combined_depth_chart", ".csv">>
TeamCsvNames == {TeamCsv("ari"), TeamCsv("atl"), TeamCsv("wsh")}
NotesTxt == <<"notes", ".txt">>
\* output_filename
MasterName == <<"master_nfl_depth_chart", ".csv">>

\* the rows of a CSV file: the header of the combined files, and the n-th
\* row of a file
HeaderRow == [file |-> "header", n |-> 0]
FileRow(slug, n) == [file |-> slug, n |-> n]
\* the contents a file can have: no row at all, or k rows of which the first
\* is the header or is a row like the others
Contents(slug) ==
    {<<>>} \cup
    {[i \in 1..k |-> IF i = 1 /\ h THEN HeaderRow ELSE FileRow(slug, i)] :
        k \in 1..MaxFileRows, h \in BOOLEAN}

\* no file of that name
NoFile == <<[file |-> "no file", n |-> 0]>>

RECURSIVE NameChars(_)
NameChars(name) ==
    IF name = <<>> THEN <<>> ELSE Chars(Head(name)) \o NameChars(Tail(name))
NameLess(a, b) == LexLess(NameChars(a), NameChars(b))

\* f.endswith(".csv")
EndsWithCsv(name) == name # <<>> /\ name[Len(name)] = ".csv"

\* the orders in which os.listdir can return the names
Perms(S) == {f \in [1..Cardinality(S) -> S] : Range(f) = S}

\* a mutant: the master file is not left out of the input files
AllFilesWithMaster(listing) ==
    SelectSeq(listing, LAMBDA f : EndsWithCsv(f))

\* line 18: the list comprehension over os.listdir
AllFiles(listing) ==
    SelectSeq(listing, LAMBDA f : EndsWithCsv(f) /\ f # MasterName)

\* a mutant: the files are merged in the order of the directory listing
SortFilesListingOrder(files) == files

\* line 25: all_files.sort()
SortFiles(files) ==
    StableSort(files, {p \in Range(files) \X Range(files) : NameLess(p[1], p[2])})

InitMaster ==
    /\ \E D \in SUBSET TeamCsvNames :
          \E c \in {f \in [D -> UNION {Contents(n[1]) : n \in D}] :
                        \A n \in D : f[n] \in Contents(n[1])} :
             master_dir = [n \in D \cup {NotesTxt} |->
                              IF n = NotesTxt THEN <<FileRow("notes", 1)>> ELSE c[n]]
    /\ master_csv \in {NoFile, <<HeaderRow, FileRow("old", 1)>>}
    /\ all_files = <<>>
    /\ masterIdx = 0
    /\ header_written = FALSE
    /\ master_runs = <<>>
    /\ pcMaster = "list"
    /\ ParseAndCombineIdle
    /\ RowIdle
    /\ BatchIdle
    /\ FetchIdle
    /\ RunsIdle
    /\ ToolIdle

\* lines 18-31: the files are listed, filtered and sorted; without input
\* files the function returns, otherwise the master file is opened for writing
ListMaster ==
    /\ pcMaster = "list"
    /\ \E listing \in Perms(DOMAIN master_dir \cup
                            (IF master_csv = NoFile THEN {} ELSE {MasterName})) :
          all_files' = SortFiles(AllFiles(listing))
    /\ IF all_files' = <<>>
       THEN pcMaster' = "done" /\ UNCHANGED master_csv
       ELSE pcMaster' = "merge" /\ master_csv' = <<>>
    /\ UNCHANGED <<master_dir, masterIdx, header_written, master_runs>>
    /\ UNCHANGED <<parseVars, combineVars, rowVars, batchVars, fetchVars, runVars, toolVars>>

\* one pass of the loop of line 34; next(reader) on a file without rows
\* raises StopIteration, which the except clause of line 56 takes
MergeFile ==
    /\ pcMaster = "merge"
    /\ masterIdx < Len(all_files)
    /\ LET filename == all_files[masterIdx + 1]
           rows == IF filename = MasterName THEN master_csv ELSE master_dir[filename]
       IN
          IF rows = <<>>
          THEN /\ pcMaster' = "error"
               /\ UNCHANGED <<master_csv, masterIdx, header_written>>
          ELSE /\ master_csv' = master_csv
                                \o (IF header_written THEN <<>> ELSE <<Head(rows)>>)
                                \o Tail(rows)
               /\ header_written' = TRUE
               /\ masterIdx' = masterIdx + 1
               /\ pcMaster' = pcMaster
    /\ UNCHANGED <<master_dir, all_files, master_runs>>
    /\ UNCHANGED <<parseVars, combineVars, rowVars, batchVars, fetchVars, runVars, toolVars>>

\* lines 51-54: the summary
MasterDone ==
    /\ pcMaster = "merge"
    /\ masterIdx = Len(all_files)
    /\ pcMaster' = "done"
    /\ UNCHANGED <<master_dir, master_csv, all_files, masterIdx, header_written, master_runs>>
    /\ UNCHANGED <<parseVars, combineVars, rowVars, batchVars, fetchVars, runVars, toolVars>>

\* create_master_depth_chart_csv is called again on the same directory, which
\* now holds the master file of the run before
MasterAgain ==
    /\ pcMaster \in {"done", "error"}
    /\ Len(master_runs) + 1 < NumRuns
    /\ master_runs' = Append(master_runs, master_csv)
    /\ all_files' = <<>>
    /\ masterIdx' = 0
    /\ header_written' = FALSE
    /\ pcMaster' = "list"
    /\ UNCHANGED <<master_dir, master_csv>>
    /\ UNCHANGED <<parseVars, combineVars, rowVars, batchVars, fetchVars, runVars, toolVars>>

NextMaster == ListMaster \/ MergeFile \/ MasterDone \/ MasterAgain

SpecMaster == InitMaster /\ [][NextMaster]_vars

\* the input files of the merge, in sorted file-name order
MasterInputs ==
    LET S == {n \in DOMAIN master_dir : EndsWithCsv(n) /\ n # MasterName} IN
    CHOOSE f \in Perms(S) : \A i, j \in 1..Len(f) : i < j => NameLess(f[i], f[j])
\* the rows of a file behind its first row
DataRows(rows) == IF rows = <<>> THEN <<>> ELSE Tail(rows)
RECURSIVE AllDataRows(_)
AllDataRows(files) ==
    IF files = <<>> THEN <<>>
    ELSE DataRows(master_dir[Head(files)]) \o AllDataRows(Tail(files))
\* the first row of the first input file, then the data rows of all of them
ExpectedMaster ==
    LET first == master_dir[MasterInputs[1]] IN
    (IF first = <<>> THEN <<>> ELSE <<first[1]>>) \o AllDataRows(MasterInputs)

\* C20: after a merge over at least one input file the master file holds the
\* first row of the first input file in sorted name order, once, then the rows
\* behind the first row of every input file, in that file order and in row
\* order; the first row of a later file is left out whatever it is.
C20_MasterContent ==
    (pcMaster \in {"done", "error"} /\ MasterInputs # <<>>)
        => master_csv = ExpectedMaster

\* C20 for directories whose input files all have a first row: the merge does
\* not fail and the master file is as stated
C20_MasterContentNoEmptyFile ==
    (\A i \in 1..Len(MasterInputs) : master_dir[MasterInputs[i]] # <<>>) =>
        /\ pcMaster # "error"
        /\ C20_MasterContent

(***************************************************************************)
(* SpecRuns: combine_team_depth_charts over a directory of unit files and  *)
(* create_master_depth_chart_csv over its output, twice on the same files.  *)
(***************************************************************************)
Separator == "_depth_chart_"
UnitCsv(slug, unit) == <<slug, Separator, unit, ".csv">>
\* the files the directory can hold: unit files of two teams, a copy of one
\* of them under a longer name, a file of no known unit, a file of no team
AriOffense == UnitCsv("ari", "offense")
AriOffenseCopy == AriOffense \o <<".bak", ".csv">>
AriDefense == UnitCsv("ari", "defense")
AtlSpecialTeams == UnitCsv("atl", "special_teams")
AriTable == UnitCsv("ari", "table_1")
NotesCsv == <<"notes", ".csv">>
UnitDirNames == {AriOffense, AriOffenseCopy, AriDefense, AtlSpecialTeams, AriTable, NotesCsv}

\* team_slug.replace("-", " ").title()
TeamNameOf(slug) ==
    CASE slug = <<"ari">> -> "Ari"
      [] slug = <<"atl">> -> "Atl"
      [] OTHER -> "Notes"

\* the data rows of each file, as process_defenses.py writes them
UnitRows(name) ==
    LET team_name == TeamNameOf(<<Head(name)>>) IN
    CASE name = AriOffense -> <<PlayerCsvRow(team_name, "WR", 2, Al)>>
      [] name = AriOffenseCopy -> <<PlayerCsvRow(team_name, "QB", 1, Al)>>
      [] name = AriDefense ->
            <<PlayerCsvRow(team_name, "RB", 1, Bo), PlayerCsvRow(team_name, "PR", 1, Al)>>
      [] name = AtlSpecialTeams ->
            <<PlayerCsvRow(team_name, "P", 1, Bo), PlayerCsvRow(team_name, "PK", 1, Al)>>
      [] name = AriTable -> <<PlayerCsvRow(team_name, "K", 1, Bo)>>
      [] OTHER -> <<>>

\* filename.split('_depth_chart_'): the positions of the separator
SeparatorsIn(name) == {i \in 1..Len(name) : name[i] = Separator}
\* len(parts) == 2
HasTwoParts(name) == Cardinality(SeparatorsIn(name)) = 1
TeamSlug(name) == SubSeq(name, 1, (CHOOSE i \in SeparatorsIn(name) : TRUE) - 1)
\* parts[1]; file_type_suffix is "_" followed by it
SuffixParts(name) == SubSeq(name, (CHOOSE i \in SeparatorsIn(name) : TRUE) + 1, Len(name))

\* the keys of unit_priority_map, without the leading "_"
KeyParts(suffix_key) ==
    CASE suffix_key = Offense -> <<"offense", ".csv">>
      [] suffix_key = Defense -> <<"defense", ".csv">>
      [] suffix_key = SpecialTeams -> <<"special_teams", ".csv">>

StartsWith(parts, prefix) ==
    Len(parts) >= Len(prefix) /\ SubSeq(parts, 1, Len(prefix)) = prefix

\* lines 43-53: the suffix keys the name starts with (at most one)
MatchingKeys(name) ==
    IF EndsWithCsv(name) /\ HasTwoParts(name)
    THEN {k \in FileTypes : StartsWith(SuffixParts(name), KeyParts(k))}
    ELSE {}

\* a mutant: team_files is keyed by the file type alone, every team gets the
\* files of all teams
GroupFilesOfAllTeams(listing) ==
    LET known == {i \in 1..Len(listing) : MatchingKeys(listing[i]) # {}}
        KeyOf(i) == CHOOSE k \in MatchingKeys(listing[i]) : TRUE
        slugs == {TeamSlug(listing[i]) : i \in known}
    IN  [slug \in slugs |->
            [k \in {KeyOf(i) : i \in known} |->
                LET last == CHOOSE i \in known : /\ KeyOf(i) = k
                                                 /\ \A j \in known : KeyOf(j) = k => j <= i
                IN  listing[last]]]

\* lines 41-57: team_files; a later file of the same team and key replaces
\* the earlier one
GroupFiles(listing) ==
    LET known == {i \in 1..Len(listing) : MatchingKeys(listing[i]) # {}}
        KeyOf(i) == CHOOSE k \in MatchingKeys(listing[i]) : TRUE
        slugs == {TeamSlug(listing[i]) : i \in known}
    IN  [slug \in slugs |->
            LET mine == {i \in known : TeamSlug(listing[i]) = slug} IN
            [k \in {KeyOf(i) : i \in mine} |->
                LET last == CHOOSE i \in mine : /\ KeyOf(i) = k
                                                /\ \A j \in mine : KeyOf(j) = k => j <= i
                IN  listing[last]]]

\* lines 92-119 over the rows of one file
RECURSIVE FoldRows(_, _, _)
FoldRows(players, unit_priority, rows) ==
    IF rows = <<>> THEN players
    ELSE FoldRows(FoldRow(players, unit_priority, Head(rows)), unit_priority, Tail(rows))

\* lines 82-119 over the files of one team, in the order given
RECURSIVE FoldFiles(_, _, _, _)
FoldFiles(players, file_types, files_info, dir) ==
    IF file_types = <<>> THEN players
    ELSE FoldFiles(FoldRows(players, UnitPriority(Head(file_types)),
                            dir[files_info[Head(file_types)]]),
                   Tail(file_types), files_info, dir)

\* lines 60-178 for one team: the rows of its combined file, header first.
\* The keys of files_info have distinct priorities, so sorted() gives the same
\* list for every order of the keys.
CombineTeam(files_info, dir) ==
    <<HeaderRow>> \o
    OutputRows(FoldFiles(<<>>, SortedFileTypes(SetToSeq(DOMAIN files_info)), files_info, dir))

\* f"{team_slug}_combined_depth_chart.csv"
CombinedName(slug) == slug \o <<"_combined_depth_chart", ".csv">>

\* lines 60-189 for every team: the combined directory
CombineAll(listing, dir) ==
    LET team_files == GroupFiles(listing) IN
    [name \in {CombinedName(slug) : slug \in DOMAIN team_files} |->
        LET slug == CHOOSE t \in DOMAIN team_files : CombinedName(t) = name IN
        CombineTeam(team_files[slug], dir)]

\* master_combine.py:34-49 over the sorted files: the rows written until the
\* loop ends or next(reader) raises
RECURSIVE MergeRows(_, _, _)
MergeRows(files, dir, written) ==
    IF files = <<>> THEN <<>>
    ELSE LET rows == dir[Head(files)] IN
         IF rows = <<>> THEN <<>>
         ELSE (IF written THEN <<>> ELSE <<Head(rows)>>) \o Tail(rows)
              \o MergeRows(Tail(files), dir, TRUE)

\* create_master_depth_chart_csv: the rows of the master file
MasterRows(listing, dir) == MergeRows(SortFiles(AllFiles(listing)), dir, FALSE)

InitRuns ==
    /\ unit_dir \in {[n \in D |-> UnitRows(n)] : D \in SUBSET UnitDirNames}
    /\ runNo = 1
    /\ combined_out = <<>>
    /\ master_out = <<>>
    /\ pcRun = "combine"
    /\ ParseAndCombineIdle
    /\ RowIdle
    /\ BatchIdle
    /\ FetchIdle
    /\ MasterIdle
    /\ ToolIdle

\* combine_team_depth_charts on one listing of the directory
RunCombine ==
    /\ pcRun = "combine"
    /\ \E listing \in Perms(DOMAIN unit_dir) :
          combined_out' = Append(combined_out, CombineAll(listing, unit_dir))
    /\ pcRun' = "master"
    /\ UNCHANGED <<unit_dir, runNo, master_out>>
    /\ UNCHANGED <<parseVars, combineVars, rowVars, batchVars, fetchVars, masterVars, toolVars>>

\* create_master_depth_chart_csv on one listing of the combined directory,
\* which from the second run on holds the master file of the run before; a
\* directory without input files leaves the master file as it is
RunMaster ==
    /\ pcRun = "master"
    /\ LET dir == combined_out[runNo]
           names == DOMAIN dir \cup (IF runNo > 1 /\ master_out[runNo - 1] # NoFile
                                     THEN {MasterName} ELSE {})
       IN  \E listing \in Perms(names) :
              master_out' = Append(master_out,
                                   IF AllFiles(listing) = <<>>
                                   THEN (IF runNo > 1 THEN master_out[runNo - 1] ELSE NoFile)
                                   ELSE MasterRows(listing, dir))
    /\ IF runNo < NumRuns
       THEN runNo' = runNo + 1 /\ pcRun' = "combine"
       ELSE runNo' = runNo /\ pcRun' = "done"
    /\ UNCHANGED <<unit_dir, combined_out>>
    /\ UNCHANGED <<parseVars, combineVars, rowVars, batchVars, fetchVars, masterVars, toolVars>>

NextRuns == RunCombine \/ RunMaster

SpecRuns == InitRuns /\ [][NextRuns]_vars

\* the rows of a combined file stand in ascending order of their uid
SortedByUid(rows) ==
    \A i, j \in 2..Len(rows) : i < j => StrLess(rows[i].PlayerUID, rows[j].PlayerUID)

\* C15: two runs of the combine stage and the master merge over the same
\* files write the same combined files and the same master file, whatever the
\* two directory listings; the rows of a combined file stand in uid order and
\* the master rows in the order of the sorted file names.
C15_Determinism ==
    /\ \A r \in 1..Len(combined_out) : \A n \in DOMAIN combined_out[r] :
          SortedByUid(combined_out[r][n])
    /\ pcRun = "done" =>
          /\ combined_out[1] = combined_out[2]
          /\ master_out[1] = master_out[2]

\* C15 for directories that hold at most one file per team and unit
C15_DeterminismOneFilePerUnit ==
    (\A a, b \in DOMAIN unit_dir :
        (a # b /\ MatchingKeys(a) # {} /\ MatchingKeys(a) = MatchingKeys(b))
            => TeamSlug(a) # TeamSlug(b))
    => C15_Determinism

\* C21: no input file aborts the master merge: when the merge has ended, the
\* rows behind the first row of every input file are in the master file,
\* whatever the other input files hold (an empty one is passed over).
C21_NoInputAbortsMerge ==
    pcMaster \in {"done", "error"} =>
        /\ pcMaster # "error"
        /\ \A i \in 1..Len(MasterInputs) :
               Range(DataRows(master_dir[MasterInputs[i]])) \subseteq Range(master_csv)

(***************************************************************************)
(* The scripts below are modelled one by one; while one runs, the          *)
(* pipeline stages above and the other scripts are idle.                   *)
(***************************************************************************)
pipelineVars == <<parseVars, combineVars, rowVars, batchVars, fetchVars, masterVars, runVars>>
PipelineIdle ==
    ParseAndCombineIdle /\ RowIdle /\ BatchIdle /\ FetchIdle /\ MasterIdle /\ RunsIdle

(***************************************************************************)
(* SpecUnits: the tables of one team page on their way to a unit:          *)
(* scraper.py saves them by their position on the page, rename_files.py    *)
(* turns the position into the unit of the file name.                      *)
(***************************************************************************)
MaxPageTables == 4

\* the substrings that tables_to_xml looks for in a title
OffenseTokens == {"QB", "RB", "WR", "TE", "OL", "FB"}
\* sample section titles, and which of the substrings each contains
Titles == {"3WR 1TE", "Base 4-3 D", "Special Teams", "QB Special", ""}
TitleTokens(title) ==
    CASE title = "3WR 1TE" -> {"WR", "TE"}
      [] title = "Special Teams" -> {"Special"}
      [] title = "QB Special" -> {"QB", "Special"}
      [] OTHER -> {}

\* scraper.py:65-70
GroupName(title) ==
    IF "Special" \in TitleTokens(title) THEN "Special Teams"
    ELSE IF \E pos \in OffenseTokens : pos \in TitleTokens(title) THEN "Offense"
    ELSE "Defense"

\* scraper.py:151, the file name behind the team slug for enumerate index i - 1
TableSuffix(i) ==
    CASE i = 1 -> "_depth_chart_table_1.html"
      [] i = 2 -> "_depth_chart_table_2.html"
      [] i = 3 -> "_depth_chart_table_3.html"
      [] i = 4 -> "_depth_chart_table_4.html"
      [] OTHER -> "_depth_chart_table_5.html"

\* rename_files.py:17-21, in dict order
RenamePatterns ==
    << <<"_depth_chart_table_1.html", "_depth_chart_offense.html">>,
       <<"_depth_chart_table_2.html", "_depth_chart_defense.html">>,
       <<"_depth_chart_table_3.html", "_depth_chart_special_teams.html">> >>

\* rename_files.py:32-35 on the part of the name behind the team slug
NewSuffix(suffix) ==
    IF \E k \in DOMAIN RenamePatterns : RenamePatterns[k][1] = suffix
    THEN RenamePatterns[CHOOSE k \in DOMAIN RenamePatterns : RenamePatterns[k][1] = suffix][2]
    ELSE suffix

\* the unit a file name stands for in the later stages
NoUnit == "no unit"
UnitOfSuffix(suffix) ==
    CASE suffix = "_depth_chart_offense.html" -> "Offense"
      [] suffix = "_depth_chart_defense.html" -> "Defense"
      [] suffix = "_depth_chart_special_teams.html" -> "Special Teams"
      [] OTHER -> NoUnit

InitUnits ==
    /\ page_titles \in SeqsUpTo(Titles, MaxPageTables)
    /\ table_files = <<>>
    /\ pcUnits = "save"
    /\ PipelineIdle
    /\ ToolsIdleBut("units")

\* scraper.py:148-156
SaveTables ==
    /\ pcUnits = "save"
    /\ table_files' = [i \in 1..Len(page_titles) |-> TableSuffix(i)]
    /\ pcUnits' = "rename"
    /\ UNCHANGED page_titles
    /\ UNCHANGED pipelineVars
    /\ ToolsStayBut("units")

\* rename_depth_chart_files on the files of the page
RenameTables ==
    /\ pcUnits = "rename"
    /\ table_files' = [i \in DOMAIN table_files |-> NewSuffix(table_files[i])]
    /\ pcUnits' = "done"
    /\ UNCHANGED page_titles
    /\ UNCHANGED pipelineVars
    /\ ToolsStayBut("units")

NextUnits == SaveTables \/ RenameTables
SpecUnits == InitUnits /\ [][NextUnits]_vars

\* C22: the unit of each table of a page is the one its section title gives:
\* Special Teams for a title containing "Special", else Offense for a title
\* containing an offensive token, else Defense, wherever the table stands on
\* the page.
C22_UnitFromTitle ==
    pcUnits = "done" =>
        \A i \in DOMAIN page_titles :
            UnitOfSuffix(table_files[i]) = GroupName(page_titles[i])

\* C22 for pages in the usual layout (an offensive formation, a defensive
\* one, special teams, in that order): position and title agree
C22_UnitFromTitleUsualLayout ==
    (pcUnits = "done" /\ page_titles = <<"3WR 1TE", "Base 4-3 D", "Special Teams">>) =>
        \A i \in DOMAIN page_titles :
            UnitOfSuffix(table_files[i]) = GroupName(page_titles[i])

(***************************************************************************)
(* SpecStatus: the status of one player cell of a roster table, as         *)
(* scrapeNBA.parse_nba_roster_data and scrapeNHL.parse_nhl_roster_data     *)
(* find it.                                                                *)
(***************************************************************************)
\* sample texts of span.injuries-status, and the absent span
NoStatusSpan == "no span"
StatusSpanTexts == {NoStatusSpan, "", "Out", "DTD"}
\* sample matches of \(([^)]+)\)$ in the flattened text, and no match
NoToken == "no token"
Tokens == {NoToken, "12", "Out", "Day-To-Day", "Questionable"}
\* str.isdigit and len of the sample tokens
IsDigit(token) == token = "12"
TokenLen(token) ==
    CASE token = "12" -> 2
      [] token = "Out" -> 3
      [] token = "DTD" -> 3
      [] token = "Day-To-Day" -> 10
      [] token = "Questionable" -> 12
      [] OTHER -> 0
MaxStatusLen == 10

\* what an element holds: a.AnchorLink or not, the text of the status span,
\* the parenthesized token its flattened text ends with
Contents3 == [link : BOOLEAN, span : StatusSpanTexts, token : Tokens]
\* a cell: everything inside the first div of the td ("div"), a td without a
\* div ("bare"), or the link inside the div and the rest behind the div ("split")
Layouts == {"div", "bare", "split"}
RosterCells == [layout : Layouts, holds : Contents3]

NoElement == [link |-> FALSE, span |-> NoStatusSpan, token |-> NoToken]
\* scrapeNBA.py:121, the element searched: the first div of the Name cell
NameCellContent(cell) ==
    CASE cell.layout = "div" -> cell.holds
      [] cell.layout = "bare" -> NoElement
      [] cell.layout = "split" -> [link |-> cell.holds.link, span |-> NoStatusSpan, token |-> NoToken]
\* scrapeNHL.py:106, the element searched: the td
PlayerInfoCell(cell) == cell.holds

\* scrapeNBA.py:123-140 and scrapeNHL.py:107-123 on the element searched
PlayerStatus(el) ==
    IF ~el.link THEN None
    ELSE IF el.span # NoStatusSpan /\ el.span # "" THEN el.span
    ELSE IF el.token # NoToken /\ ~IsDigit(el.token) /\ TokenLen(el.token) <= MaxStatusLen
         THEN el.token
    ELSE None
PlayerStatusNba(cell) == PlayerStatus(NameCellContent(cell))
PlayerStatusNhl(cell) == PlayerStatus(PlayerInfoCell(cell))

NotParsed == "not parsed"
InitStatus ==
    /\ player_info_cell \in RosterCells
    /\ nba_status = NotParsed
    /\ nhl_status = NotParsed
    /\ pcStatus = "parse"
    /\ PipelineIdle
    /\ ToolsIdleBut("status")

ParseNbaCell ==
    /\ pcStatus = "parse"
    /\ nba_status = NotParsed
    /\ nba_status' = PlayerStatusNba(player_info_cell)
    /\ UNCHANGED <<player_info_cell, nhl_status, pcStatus>>
    /\ UNCHANGED pipelineVars
    /\ ToolsStayBut("status")

ParseNhlCell ==
    /\ pcStatus = "parse"
    /\ nhl_status = NotParsed
    /\ nhl_status' = PlayerStatusNhl(player_info_cell)
    /\ UNCHANGED <<player_info_cell, nba_status, pcStatus>>
    /\ UNCHANGED pipelineVars
    /\ ToolsStayBut("status")

NextStatus == ParseNbaCell \/ ParseNhlCell
SpecStatus == InitStatus /\ [][NextStatus]_vars

\* the status the two stages give for what the cell holds
TwoStageStatus(cell) ==
    IF cell.holds.span \notin {NoStatusSpan, ""} THEN cell.holds.span
    ELSE IF cell.holds.token \in {"Out", "Day-To-Day"} THEN cell.holds.token
    ELSE None

\* C23: for a cell with a player link, both roster parsers give the text of
\* the status element when it is there and not empty, else the trailing
\* parenthesized token when it is not a number and at most 10 characters
\* long, else no status; so both give the same status for the same cell.
C23_TwoStageStatus ==
    (player_info_cell \in RosterCells /\ player_info_cell.holds.link) =>
        /\ nba_status \in {NotParsed, TwoStageStatus(player_info_cell)}
        /\ nhl_status \in {NotParsed, TwoStageStatus(player_info_cell)}
        /\ (nba_status # NotParsed /\ nhl_status # NotParsed => nba_status = nhl_status)

\* C23 for cells whose content lies inside the first div of the td
C23_TwoStageStatusInsideDiv ==
    (player_info_cell \in RosterCells /\ player_info_cell.layout = "div") => C23_TwoStageStatus

(***************************************************************************)
(* SpecHeader: the header row of write_players_to_csv, for the writer of   *)
(* scrapeMLB.py and the one of scrapeNBA.py.                               *)
(***************************************************************************)
MaxRecords == 2

\* scrapeMLB.py:167-170
PreferredHeadersOrderMlb ==
    <<"team_name", "team_abbrev", "player_name", "position_name",
      "depth_label", "status", "player_url", "section_title">>
\* scrapeNBA.py:211-215
PreferredHeadersOrderNba ==
    <<"team_name", "team_abbrev", "player_name", "position_name",
      "age", "height", "weight", "experience", "college", "salary",
      "birth_place", "birthdate", "status", "player_url", "section_title">>

\* the keys the sample records are made of
RecordKeys == {"player_name", "status", "depth_label", "age", "Zip"}

\* all_headers: the union of the keys of all records
AllHeaders(data) == UNION Range(data)

\* [h for h in preferred_headers_order if h in all_headers]
RECURSIVE PresentOf(_, _)
PresentOf(preferred, all_headers) ==
    IF preferred = <<>> THEN <<>>
    ELSE (IF Head(preferred) \in all_headers THEN <<Head(preferred)>> ELSE <<>>)
         \o PresentOf(Tail(preferred), all_headers)

\* a mutant: the remaining headers are appended without sorted()
HeadersUnsorted(data, preferred) ==
    LET rest == AllHeaders(data) \ Range(preferred)
    IN  PresentOf(preferred, AllHeaders(data))
        \o StableSort(SetToSeq(rest), {p \in rest \X rest : StrLess(p[2], p[1])})

\* the fieldnames: the preferred headers that are present, then
\* sorted([h for h in all_headers if h not in preferred_headers_order])
Headers(data, preferred) ==
    LET rest == AllHeaders(data) \ Range(preferred)
    IN  PresentOf(preferred, AllHeaders(data))
        \o StableSort(SetToSeq(rest), {p \in rest \X rest : StrLess(p[1], p[2])})

InitHeader ==
    /\ players_data \in SeqsUpTo(SUBSET RecordKeys, MaxRecords)
    /\ csv_headers = <<>>
    /\ pcHeader = "write"
    /\ PipelineIdle
    /\ ToolsIdleBut("header")

\* write_players_to_csv: nothing is written for an empty list
WritePlayersToCsv(writer, preferred) ==
    /\ pcHeader = "write"
    /\ players_data # <<>>
    /\ writer \notin DOMAIN csv_headers
    /\ csv_headers' = csv_headers @@ (writer :> Headers(players_data, preferred))
    /\ UNCHANGED <<players_data, pcHeader>>
    /\ UNCHANGED pipelineVars
    /\ ToolsStayBut("header")

WriteMlbCsv == WritePlayersToCsv("mlb", PreferredHeadersOrderMlb)
WriteNbaCsv == WritePlayersToCsv("nba", PreferredHeadersOrderNba)
\* if not players_data: return
WriteNothing ==
    /\ pcHeader = "write"
    /\ players_data = <<>>
    /\ pcHeader' = "done"
    /\ UNCHANGED <<players_data, csv_headers>>
    /\ UNCHANGED pipelineVars
    /\ ToolsStayBut("header")

NextHeader == WriteMlbCsv \/ WriteNbaCsv \/ WriteNothing
SpecHeader == InitHeader /\ [][NextHeader]_vars

PreferredOf(writer) ==
    IF writer = "mlb" THEN PreferredHeadersOrderMlb ELSE PreferredHeadersOrderNba
\* the place of a header in a list without repetitions
IndexIn(h, list) == CHOOSE i \in DOMAIN list : list[i] = h

MaxListed == 3

AtlOffense == UnitCsv("atl", "offense")
ListedNames == {AriOffense, AriOffenseCopy, AriDefense, AtlSpecialTeams, AtlOffense}
\* the rows of a file of the first directory, and the rows a changed or
\* added file holds: the player of uid u1 at another position
FirstRows(name) ==
    IF name = AtlOffense THEN <<PlayerCsvRow(TeamNameOf(<<Head(name)>>), "QB", 1, Bo)>>
    ELSE UnitRows(name)
OtherRows(name) == <<PlayerCsvRow(TeamNameOf(<<Head(name)>>), "LS", 2, Al)>>
ListedFile(name, rows) == [name |-> name, rows |-> rows]

\* the listings of up to MaxListed files with different names
FirstListings ==
    {[i \in DOMAIN l |-> ListedFile(l[i], FirstRows(l[i]))] :
        l \in {m \in SeqsUpTo(ListedNames, MaxListed) :
                  \A i, j \in DOMAIN m : i # j => m[i] # m[j]}}
NamesOf(l) == {l[i].name : i \in DOMAIN l}
InsertAt(l, i, f) == SubSeq(l, 1, i) \o <<f>> \o SubSeq(l, i + 1, Len(l))
\* a listing with one file removed, with the rows of one file replaced, or
\* with one more file
Edits(l) ==
    {SubSeq(l, 1, i - 1) \o SubSeq(l, i + 1, Len(l)) : i \in DOMAIN l}
    \cup {[l EXCEPT ![i] = ListedFile(l[i].name, OtherRows(l[i].name))] : i \in DOMAIN l}
    \cup UNION {{InsertAt(l, p[1], ListedFile(p[2], FirstRows(p[2]))),
                 InsertAt(l, p[1], ListedFile(p[2], OtherRows(p[2])))} :
                    p \in (0..Len(l)) \X (ListedNames \ NamesOf(l))}

\* os.listdir of a directory and the rows of its files
ListingOf(l) == [i \in DOMAIN l |-> l[i].name]
DirOf(l) == [n \in NamesOf(l) |-> l[CHOOSE i \in DOMAIN l : l[i].name = n].rows]

InitIsolation ==
    /\ \E l \in FirstListings : \E e \in Edits(l) : unit_listings = <<l, e>>
    /\ combined_dirs = <<>>
    /\ pcIsolation = "combine"
    /\ PipelineIdle
    /\ ToolsIdleBut("isolation")

\* combine_team_depth_charts on the first directory, then on the second
CombineDirectory ==
    /\ pcIsolation = "combine"
    /\ Len(combined_dirs) < 2
    /\ LET l == unit_listings[Len(combined_dirs) + 1] IN
       combined_dirs' = Append(combined_dirs, CombineAll(ListingOf(l), DirOf(l)))
    /\ UNCHANGED <<unit_listings, pcIsolation>>
    /\ UNCHANGED pipelineVars
    /\ ToolsStayBut("isolation")

IsolationDone ==
    /\ pcIsolation = "combine"
    /\ Len(combined_dirs) = 2
    /\ pcIsolation' = "done"
    /\ UNCHANGED <<unit_listings, combined_dirs>>
    /\ UNCHANGED pipelineVars
    /\ ToolsStayBut("isolation")

NextIsolation == CombineDirectory \/ IsolationDone
SpecIsolation == InitIsolation /\ [][NextIsolation]_vars

TeamSlugs == {<<"ari">>, <<"atl">>}
\* the unit files of a team in a listing, in listing order
OwnFiles(slug, l) ==
    SelectSeq(l, LAMBDA f : MatchingKeys(f.name) # {} /\ TeamSlug(f.name) = slug)
\* the combined file of a team in an output directory
TeamOutput(slug, out) ==
    IF CombinedName(slug) \in DOMAIN out THEN out[CombinedName(slug)] ELSE NoFile
\* the rows of the files read for a team that are not passed over
RowsRead(slug, l) ==
    LET team_files == GroupFiles(ListingOf(l)) IN
    IF slug \notin DOMAIN team_files THEN {}
    ELSE UNION {{r \in Range(DirOf(l)[team_files[slug][k]]) : ~SkipRow(r)} :
                   k \in DOMAIN team_files[slug]}
\* the data rows of a combined file that carry the uid
RowsOfUid(uid, rows) ==
    IF rows = NoFile THEN {} ELSE {i \in 2..Len(rows) : rows[i].PlayerUID = uid}

\* C25: the combined file of a team is the same for two directories that hold
\* the same unit files of this team, whatever files of other teams were
\* changed, added or removed; and a uid sighted on two teams has exactly one
\* row in the combined file of each.
C25_TeamIsolation ==
    /\ Len(combined_dirs) = 2 =>
          \A slug \in TeamSlugs :
              OwnFiles(slug, unit_listings[1]) = OwnFiles(slug, unit_listings[2])
                  => TeamOutput(slug, combined_dirs[1]) = TeamOutput(slug, combined_dirs[2])
    /\ \A d \in DOMAIN combined_dirs : \A slug \in TeamSlugs : \A uid \in {"u1", "u2"} :
          Cardinality(RowsOfUid(uid, TeamOutput(slug, combined_dirs[d]))) =
              IF \E r \in RowsRead(slug, unit_listings[d]) : r.PlayerUID = uid THEN 1 ELSE 0

\* two directories combined that differ in a file of atl with a sighting of
\* u1, while ari has its own sighting of u1: both teams have a row for u1
C25_Witness ==
    /\ Len(combined_dirs) = 2
    /\ OwnFiles(<<"ari">>, unit_listings[1]) = OwnFiles(<<"ari">>, unit_listings[2])
    /\ OwnFiles(<<"atl">>, unit_listings[1]) # OwnFiles(<<"atl">>, unit_listings[2])
    /\ RowsOfUid("u1", TeamOutput(<<"ari">>, combined_dirs[2])) # {}
    /\ RowsOfUid("u1", TeamOutput(<<"atl">>, combined_dirs[2])) # {}
    /\ TeamOutput(<<"atl">>, combined_dirs[1]) # TeamOutput(<<"atl">>, combined_dirs[2])

(***************************************************************************)
(* SpecDedup: the deduplication at the end of scrapeMLB.py, scrapeNBA.py   *)
(* and scrapeNHL.py over the records of all teams.                         *)
(***************************************************************************)
MaxSightings == 3

\* scrapeMLB.py:226-230 and 232
DefaultDepthRank == 999
DepthRankMapMlb(depth_label) ==
    CASE depth_label \in {"Starter", "1st", "Depth 1", "P"} -> 1
      [] depth_label \in {"2nd", "Depth 2", "RP"} -> 2
      [] depth_label \in {"3rd", "Depth 3", "CL"} -> 3
      [] depth_label \in {"4th", "Depth 4"} -> 4
      [] depth_label \in {"5th", "Depth 5"} -> 5
      [] depth_label \in {"6th", "Depth 6"} -> 6
      [] OTHER -> DefaultDepthRank
\* scrapeNHL.py:269-272
DepthRankMapNhl(depth_label) ==
    IF depth_label = "Roster" THEN 1 ELSE DefaultDepthRank
DepthRankMap(lg, depth_label) ==
    IF lg = "mlb" THEN DepthRankMapMlb(depth_label) ELSE DepthRankMapNhl(depth_label)

\* the sample players and the depth labels of their sightings; on the roster
\* pages of NBA and NHL every record has the label "Roster"
PlayerKeys == {<<"Al", "Ari">>, <<"Al", "Atl">>, <<"Bo", "Ari">>}
DepthLabels(lg) ==
    IF lg = "mlb" THEN {"Starter", "Depth 1", "2nd", "Bench"} ELSE {"Roster"}
\* a record; row stands for the fields that tell two sightings apart
Sighting(key, depth_label, row) ==
    [player_name |-> key[1], team_name |-> key[2], depth_label |-> depth_label, row |-> row]
RawPlayersData(lg) ==
    {[i \in DOMAIN s |-> Sighting(s[i][1], s[i][2], i)] :
        s \in SeqsUpTo(PlayerKeys \X DepthLabels(lg), MaxSightings)}

PlayerKey(player_data) == <<player_data.player_name, player_data.team_name>>
\* the place of a key in the dict, 0 if it is not in it
ItemOf(final, player_key) ==
    IF \E i \in DOMAIN final : final[i].key = player_key
    THEN CHOOSE i \in DOMAIN final : final[i].key = player_key
    ELSE 0

\* a mutant: on equal rank the later record replaces the stored one
KeepBestRankLastOnTie(final, player_data, lg) ==
    LET player_key == PlayerKey(player_data)
        current_depth_rank == DepthRankMap(lg, player_data.depth_label)
        item == [key |-> player_key, rank |-> current_depth_rank, data |-> player_data]
        i == ItemOf(final, player_key)
    IN  IF i = 0 THEN Append(final, item)
        ELSE IF current_depth_rank <= final[i].rank THEN [final EXCEPT ![i] = item]
        ELSE final

\* scrapeMLB.py:263-278 and scrapeNHL.py:276-288 for one record
KeepBestRank(final, player_data, lg) ==
    LET player_key == PlayerKey(player_data)
        current_depth_rank == DepthRankMap(lg, player_data.depth_label)
        item == [key |-> player_key, rank |-> current_depth_rank, data |-> player_data]
        i == ItemOf(final, player_key)
    IN  IF i = 0 THEN Append(final, item)
        ELSE IF current_depth_rank < final[i].rank THEN [final EXCEPT ![i] = item]
        ELSE final

\* scrapeNBA.py:300-304 for one record
KeepFirst(final, player_data) ==
    IF ItemOf(final, PlayerKey(player_data)) = 0
    THEN Append(final, [key |-> PlayerKey(player_data), data |-> player_data])
    ELSE final

InitDedup ==
    /\ league \in {"mlb", "nba", "nhl"}
    /\ all_raw_players_data \in RawPlayersData(league)
    /\ dedupIdx = 0
    /\ final_players_data = <<>>
    /\ deduplicated_players = <<>>
    /\ pcDedup = "loop"
    /\ PipelineIdle
    /\ ToolsIdleBut("dedup")

\* one pass of the loop over all_raw_players_data
DedupRanked ==
    /\ pcDedup = "loop"
    /\ league \in {"mlb", "nhl"}
    /\ dedupIdx < Len(all_raw_players_data)
    /\ final_players_data' =
          KeepBestRank(final_players_data, all_raw_players_data[dedupIdx + 1], league)
    /\ dedupIdx' = dedupIdx + 1
    /\ UNCHANGED <<league, all_raw_players_data, deduplicated_players, pcDedup>>
    /\ UNCHANGED pipelineVars
    /\ ToolsStayBut("dedup")

DedupNba ==
    /\ pcDedup = "loop"
    /\ league = "nba"
    /\ dedupIdx < Len(all_raw_players_data)
    /\ final_players_data' = KeepFirst(final_players_data, all_raw_players_data[dedupIdx + 1])
    /\ dedupIdx' = dedupIdx + 1
    /\ UNCHANGED <<league, all_raw_players_data, deduplicated_players, pcDedup>>
    /\ UNCHANGED pipelineVars
    /\ ToolsStayBut("dedup")

\* the values of the dict, in its order
ExtractPlayers ==
    /\ pcDedup = "loop"
    /\ dedupIdx = Len(all_raw_players_data)
    /\ deduplicated_players' = [i \in DOMAIN final_players_data |-> final_players_data[i].data]
    /\ pcDedup' = "done"
    /\ UNCHANGED <<league, all_raw_players_data, dedupIdx, final_players_data>>
    /\ UNCHANGED pipelineVars
    /\ ToolsStayBut("dedup")

NextDedup == DedupRanked \/ DedupNba \/ ExtractPlayers
SpecDedup == InitDedup /\ [][NextDedup]_vars

\* the sightings of a key, by their place in all_raw_players_data
SightingsOf(player_key) ==
    {i \in DOMAIN all_raw_players_data : PlayerKey(all_raw_players_data[i]) = player_key}
SightedKeys == {PlayerKey(all_raw_players_data[i]) : i \in DOMAIN all_raw_players_data}
\* the sighting the output is to hold for a key: for MLB the first of those
\* with the lowest rank, for NBA and NHL the first
KeptSighting(player_key) ==
    LET S == SightingsOf(player_key)
        RankOf(i) == DepthRankMapMlb(all_raw_players_data[i].depth_label)
        best == IF league = "mlb"
                THEN {i \in S : \A j \in S : RankOf(i) <= RankOf(j)}
                ELSE S
    IN  MinOf(best)

\* C26: the output holds exactly one record for every (player_name,
\* team_name) sighted, the same name on two teams being two keys; for MLB it
\* is the first of the sightings with the lowest depth rank (Starter, 1st and
\* Depth 1 are 1, an unmapped label is 999), for NBA and NHL the first
\* sighting; the records stand in the order of the first sighting of their keys.
C26_LeagueDeduplication ==
    /\ DepthRankMapMlb("Starter") = 1 /\ DepthRankMapMlb("1st") = 1
    /\ DepthRankMapMlb("Depth 1") = 1 /\ DepthRankMapMlb("Bench") = 999
    /\ pcDedup = "done" =>
          /\ {PlayerKey(deduplicated_players[i]) : i \in DOMAIN deduplicated_players} = SightedKeys
          /\ Len(deduplicated_players) = Cardinality(SightedKeys)
          /\ \A i \in DOMAIN deduplicated_players :
                deduplicated_players[i] =
                    all_raw_players_data[KeptSighting(PlayerKey(deduplicated_players[i]))]
          /\ \A i, j \in DOMAIN deduplicated_players : i < j =>
                MinOf(SightingsOf(PlayerKey(deduplicated_players[i])))
                    < MinOf(SightingsOf(PlayerKey(deduplicated_players[j])))

\* an MLB run over three sightings of Al on Ari, a "2nd" first and two of
\* rank 1 behind it: the first of rank 1 is kept
C26_Witness ==
    /\ pcDedup = "done"
    /\ league = "mlb"
    /\ Len(all_raw_players_data) = 3
    /\ \A i \in 1..3 : PlayerKey(all_raw_players_data[i]) = <<"Al", "Ari">>
    /\ all_raw_players_data[1].depth_label = "2nd"
    /\ all_raw_players_data[2].depth_label = "Starter"
    /\ all_raw_players_data[3].depth_label = "Depth 1"
    /\ deduplicated_players = <<all_raw_players_data[2]>>

\* an NBA or NHL run over the same name on two teams, one of them twice:
\* both teams keep their first sighting
C26_WitnessRoster ==
    /\ pcDedup = "done"
    /\ league \in {"nba", "nhl"}
    /\ Len(all_raw_players_data) = 3
    /\ Len(deduplicated_players) = 2
    /\ PlayerKey(deduplicated_players[1]) = <<"Al", "Atl">>
    /\ PlayerKey(deduplicated_players[2]) = <<"Al", "Ari">>

(***************************************************************************)
(* SpecRename: rename_depth_chart_files on a directory, twice.  A file     *)
(* name is the sequence of its parts, a rename pattern being one part.     *)
(***************************************************************************)
MaxDirEntries == 3
NumRenameRuns == 2

Table4 == "_depth_chart_table_4.html"
\* the names the directory can hold: tables 1 to 4 of a team, a file that is
\* renamed already, a name with the same pattern twice, another file
TableNames ==
    {<<"ari", RenamePatterns[1][1]>>, <<"ari", RenamePatterns[2][1]>>,
     <<"ari", RenamePatterns[3][1]>>, <<"ari", Table4>>,
     <<"ari", RenamePatterns[1][2]>>,
     <<"x", RenamePatterns[1][1], RenamePatterns[1][1]>>, <<"notes", ".txt">>}
\* names that may also be the names of subdirectories
SubdirNames == {<<"ari", RenamePatterns[1][2]>>, <<"ari", RenamePatterns[2][1]>>}
Entry(kind, name) == [kind |-> kind, was |-> name]
Directories ==
    UNION {{[n \in D |-> Entry(IF n \in S THEN "dir" ELSE "file", n)] :
               S \in SUBSET (D \cap SubdirNames)} :
           D \in {E \in SUBSET TableNames : Cardinality(E) <= MaxDirEntries}}

\* filename.endswith(old_suffix)
EndsWith(name, old_suffix) == name[Len(name)] = old_suffix
\* the patterns the name ends with, by their place in rename_patterns
PatternsOf(name) == {k \in DOMAIN RenamePatterns : EndsWith(name, RenamePatterns[k][1])}
\* filename.replace(old_suffix, new_suffix): every occurrence is replaced
Replace(name, old_suffix, new_suffix) ==
    [i \in DOMAIN name |-> IF name[i] = old_suffix THEN new_suffix ELSE name[i]]
\* rename_files.py:32-35: the new name for the first pattern that matches
NewFilename(name) ==
    IF PatternsOf(name) = {} THEN name
    ELSE LET k == MinOf(PatternsOf(name)) IN
         Replace(name, RenamePatterns[k][1], RenamePatterns[k][2])

\* os.rename(old, new) that succeeds
Renamed(dir, old, new) ==
    [n \in (DOMAIN dir \ {old}) \cup {new} |-> IF n = new THEN dir[old] ELSE dir[n]]

InitRename ==
    /\ tables_before \in Directories
    /\ tables_dir = tables_before
    /\ listed = <<>>
    /\ renameIdx = 0
    /\ files_renamed_count = 0
    /\ renamed_counts = <<>>
    /\ pcRename = "list"
    /\ PipelineIdle
    /\ ToolsIdleBut("rename")

\* lines 23-26: the counters are reset and the directory is listed
ListTables ==
    /\ pcRename = "list"
    /\ listed' \in Perms(DOMAIN tables_dir)
    /\ renameIdx' = 0
    /\ files_renamed_count' = 0
    /\ pcRename' = "loop"
    /\ UNCHANGED <<tables_before, tables_dir, renamed_counts>>
    /\ UNCHANGED pipelineVars
    /\ ToolsStayBut("rename")

\* one pass of the loop of line 26.  os.rename onto the name of a directory
\* raises OSError; onto the name of a file it replaces the file (POSIX) or
\* raises (Windows); the except clause of line 44 leaves the file as it is
RenameFile ==
    /\ pcRename = "loop"
    /\ renameIdx < Len(listed)
    /\ LET filename == listed[renameIdx + 1]
           new_filename == NewFilename(filename)
       IN  IF /\ filename \in DOMAIN tables_dir
              /\ tables_dir[filename].kind = "file"
              /\ new_filename # filename
           THEN \/ /\ new_filename \in DOMAIN tables_dir => tables_dir[new_filename].kind = "file"
                   /\ tables_dir' = Renamed(tables_dir, filename, new_filename)
                   /\ files_renamed_count' = files_renamed_count + 1
                \/ /\ new_filename \in DOMAIN tables_dir
                   /\ UNCHANGED <<tables_dir, files_renamed_count>>
           ELSE UNCHANGED <<tables_dir, files_renamed_count>>
    /\ renameIdx' = renameIdx + 1
    /\ UNCHANGED <<tables_before, listed, renamed_counts, pcRename>>
    /\ UNCHANGED pipelineVars
    /\ ToolsStayBut("rename")

\* lines 56-59: the summary; the function is then called again
RenameDone ==
    /\ pcRename = "loop"
    /\ renameIdx = Len(listed)
    /\ renamed_counts' = Append(renamed_counts, files_renamed_count)
    /\ pcRename' = IF Len(renamed_counts) + 1 < NumRenameRuns THEN "list" ELSE "done"
    /\ UNCHANGED <<tables_before, tables_dir, listed, renameIdx, files_renamed_count>>
    /\ UNCHANGED pipelineVars
    /\ ToolsStayBut("rename")

NextRename == ListTables \/ RenameFile \/ RenameDone
SpecRename == InitRename /\ [][NextRename]_vars

\* the files the function is to rename: those whose name ends in a pattern
ToRename == {n \in DOMAIN tables_before :
                tables_before[n].kind = "file" /\ PatternsOf(n) # {}}
\* the team slug of such a name with the unit suffix of its pattern
SlugWithUnit(name) ==
    SubSeq(name, 1, Len(name) - 1) \o <<RenamePatterns[MinOf(PatternsOf(name))][2]>>

\* C27: after a run every file whose name ended in _depth_chart_table_1.html,
\* _table_2.html or _table_3.html is found under its team slug with
\* _depth_chart_offense.html, _defense.html or _special_teams.html, every
\* other file or subdirectory is found under the name it had, and a second
\* run renames nothing.
C27_RenameAndFrame ==
    /\ Len(renamed_counts) >= 1 =>
          /\ \A n \in ToRename :
                /\ SlugWithUnit(n) \in DOMAIN tables_dir
                /\ tables_dir[SlugWithUnit(n)] = tables_before[n]
          /\ \A n \in DOMAIN tables_before \ ToRename :
                /\ n \in DOMAIN tables_dir
                /\ tables_dir[n] = tables_before[n]
    /\ Len(renamed_counts) >= 2 => renamed_counts[2] = 0

\* C27 for directories in which no new name is taken and no name holds a
\* pattern twice
C27_RenameAndFrameFreeNames ==
    (\A n \in ToRename : /\ SlugWithUnit(n) \notin DOMAIN tables_before
                         /\ NewFilename(n) = SlugWithUnit(n))
    => C27_RenameAndFrame

(***************************************************************************)
(* SpecClear: delete_temp_files with its default argument, on the          *)
(* directories of the pipeline.  os.remove is taken to succeed.            *)
(***************************************************************************)
\* os.path.isdir(directory) is false
NoDirectory == [n \in {<<"no directory">>} |-> "missing"]
\* the entries of a directory: files by extension, and a subdirectory whose
\* name ends in .html
TempEntries ==
    {<<"ari", ".html">>, <<"ari", ".xml">>, <<"ari", ".csv">>, <<"notes", ".txt">>,
     <<"old", ".html">>}
KindOf(name) == IF name = <<"old", ".html">> THEN "dir" ELSE "file"
DirectoryOf(names) == [n \in names |-> KindOf(n)]
\* the combined per-team files and the master file
CombinedEntries ==
    {<<"ari", "_combined_depth_chart", ".csv">>, <<"master_nfl_depth_chart", ".csv">>,
     <<"ari", ".html">>}

\* lines 11-12
DefaultDirectories == <<"team_CSV", "team_tables">>

\* line 31: the extensions of the files that are removed
DeletedExtensions == {".html", ".xml", ".csv"}
\* lines 27-37 on one directory: the entries that are left
Cleaned(dir) ==
    [n \in {m \in DOMAIN dir : ~(dir[m] = "file" /\ m[Len(m)] \in DeletedExtensions)}
        |-> dir[n]]

InitClear ==
    /\ disk_before \in
          [team_CSV : {NoDirectory} \cup {DirectoryOf(S) : S \in SUBSET TempEntries},
           team_tables : {NoDirectory} \cup
                         {DirectoryOf(S) : S \in SUBSET {<<"ari", ".html">>, <<"notes", ".txt">>}},
           combined_depth_charts : {DirectoryOf(S) : S \in SUBSET CombinedEntries}]
    /\ disk = disk_before
    /\ directories = DefaultDirectories
    /\ clearIdx = 0
    /\ pcClear = "loop"
    /\ PipelineIdle
    /\ ToolsIdleBut("clear")

\* lines 20-22: a directory that is not there is skipped
SkipDirectory ==
    /\ pcClear = "loop"
    /\ clearIdx < Len(directories)
    /\ disk[directories[clearIdx + 1]] = NoDirectory
    /\ clearIdx' = clearIdx + 1
    /\ UNCHANGED <<disk_before, disk, directories, pcClear>>
    /\ UNCHANGED pipelineVars
    /\ ToolsStayBut("clear")

\* lines 24-37: the files of one directory are removed
CleanDirectory ==
    /\ pcClear = "loop"
    /\ clearIdx < Len(directories)
    /\ disk[directories[clearIdx + 1]] # NoDirectory
    /\ disk' = [disk EXCEPT ![directories[clearIdx + 1]] = Cleaned(@)]
    /\ clearIdx' = clearIdx + 1
    /\ UNCHANGED <<disk_before, directories, pcClear>>
    /\ UNCHANGED pipelineVars
    /\ ToolsStayBut("clear")

ClearDone ==
    /\ pcClear = "loop"
    /\ clearIdx = Len(directories)
    /\ pcClear' = "done"
    /\ UNCHANGED <<disk_before, disk, directories, clearIdx>>
    /\ UNCHANGED pipelineVars
    /\ ToolsStayBut("clear")

NextClear == SkipDirectory \/ CleanDirectory \/ ClearDone
SpecClear == InitClear /\ [][NextClear]_vars

IsTempFile(dir, name) == dir[name] = "file" /\ name[Len(name)] \in {".html", ".xml"}
\* what the directory is to hold afterwards: all but its .html and .xml files
WithoutTempFiles(dir) ==
    IF dir = NoDirectory THEN NoDirectory
    ELSE [n \in {m \in DOMAIN dir : ~IsTempFile(dir, m)} |-> dir[n]]

\* C28: after delete_temp_files the listed directories hold what they held
\* except their .html and .xml files, a missing one being skipped, and the
\* unlisted directories hold what they held.
C28_DeletesOnlyTempFiles ==
    pcClear = "done" =>
        \A d \in DOMAIN disk :
            disk[d] = IF d \in Range(directories) THEN WithoutTempFiles(disk_before[d])
                      ELSE disk_before[d]

\* C28 without the .csv files of the listed directories: the .html and .xml
\* files are gone, the rest but the .csv files is there, the unlisted
\* directories are as they were
C28_DeletesOnlyTempFilesAndCsv ==
    pcClear = "done" =>
        \A d \in DOMAIN disk :
            IF d \in Range(directories) /\ disk_before[d] # NoDirectory
            THEN /\ \A n \in DOMAIN disk_before[d] :
                        IsTempFile(disk_before[d], n) => n \notin DOMAIN disk[d]
                 /\ \A n \in DOMAIN disk_before[d] :
                        (~IsTempFile(disk_before[d], n) /\ n[Len(n)] # ".csv")
                            => (n \in DOMAIN disk[d] /\ disk[d][n] = disk_before[d][n])
                 /\ DOMAIN disk[d] \subseteq DOMAIN disk_before[d]
            ELSE disk[d] = disk_before[d]

\* C29: every run of the master merge over the same per-team files leaves
\* the same rows in the master file as the run before, and the master file
\* is never one of the input files of a run.
C29_MasterIdempotent ==
    /\ MasterName \notin Range(all_files)
    /\ pcMaster \in {"done", "error"} =>
          \A r \in DOMAIN master_runs : master_runs[r] = master_csv

\* a second run has ended over two input files with rows, with the master
\* file of the first run in the directory
C29_Witness ==
    /\ pcMaster = "done"
    /\ Len(master_runs) = 1
    /\ master_runs[1] # NoFile
    /\ Len(all_files) >= 2
    /\ Len(master_csv) >= 3

\* the entries of a list, sorted from one fixed order of the set
SortedFromSet(all_positions) == SortPositions(SetToSeq(Range(all_positions)))
\* two different entries with the same sort key
HasTiedKeys(all_positions) ==
    \E a, b \in Range(all_positions) :
        a # b /\ GetPositionSortKey(a) = GetPositionSortKey(b)

\* C30: the sorted position list of a player is the same for every order in
\* which the rows with its entries were read: it is given by the set of the
\* entries, special-teams positions outside the priority table included.
C30_OrderIndependence ==
    pc = "done" =>
        \A uid \in DOMAIN consolidated_players :
            consolidated_players[uid].all_positions
                = SortedFromSet(consolidated_players[uid].all_positions)

\* C30 for players without two entries of the same sort key
C30_OrderIndependenceNoTies ==
    pc = "done" =>
        \A uid \in DOMAIN consolidated_players :
            ~HasTiedKeys(consolidated_players[uid].all_positions) =>
                consolidated_players[uid].all_positions
                    = SortedFromSet(consolidated_players[uid].all_positions)

====
